---- MODULE Spec2Model ----
(***************************************************************************)
(* Tinpot: broker-mediated action dispatch.                                *)
(*                                                                         *)
(* SpecExec    the coordinator's execution path: executeAction (HTTP),     *)
(*             mqttActionExecution.trigger, the log and result handlers,   *)
(*             the ExecutionState registry and streamLogs (SSE).           *)
(* SpecWorker  the workers: announce and subscribe on connect, one         *)
(*             executeAction goroutine per trigger message, and            *)
(*             pyActionInfo.trigger around the embedded interpreter.       *)
(* SpecCatalog the coordinator's catalog: onActionAnnounced, GetAction.    *)
(*                                                                         *)
(* The broker client (paho) and the broker are not part of the repository: *)
(* they are modelled by their contract.  A Subscribe call registers the    *)
(* handler at once and is acknowledged later (or fails); an Unsubscribe     *)
(* call removes the handler at once.  The coordinator creates its client   *)
(* with the default options, under which the client calls the handlers one *)
(* at a time from a single goroutine: the next message is handed over only *)
(* when the handler of the previous one has returned, and a message whose  *)
(* topic has no handler is discarded.  The workers start a goroutine per   *)
(* trigger message, so their invocations overlap.  A Go panic in a         *)
(* goroutine ends the process.                                             *)
(***************************************************************************)
EXTENDS Integers, Sequences, FiniteSets, TLC

\* Capacity of ExecutionState.EventChan.  The program uses 1000; the model
\* scales it down so that a full queue is reached.
QueueCap == 2

\* Log lines a worker publishes for one execution (more than QueueCap).
MaxLogs == 3

\* Result messages the broker hands over for one execution (QoS 1 is at
\* least once; 2 covers a redelivery).
MaxResults == 2

\* Execution ids (uuid.New() of executeAction), each used by one request.
\* Executions share nothing but the executions map and the process, so one id
\* run in either mode covers the per-execution behaviour.
ExecIds == {"e1"}

\* The two per-execution topics tinpot/exec/{id}/result and .../log.
Topics == {"result", "log"}

\* Payloads seen on a result topic: a ResultResponse with that status, or
\* bytes that do not decode.
ResultPayloads == {"SUCCESS", "FAILURE", "undecodable"}

\* Workers connected to the broker; all of them load the same action.
Workers == {"w1", "w2"}

\* Execution ids of the trigger messages the workers are sent.
TrigIds == {"e1", "e2"}

\* Action names seen on tinpot/actions/{name}.
Names == {"a", "b"}

\* Messages published on the announcement topics in one run.
MaxAnnounce == 3

\* HTTP clients that open a stream on one execution at the same time.
Clients == {"c1", "c2"}

VARIABLES
    mode,        \* x -> "none" | "sync" | "async": executeAction's syncMode
    pc,          \* x -> position of trigger
    subs,        \* x -> topics the coordinator holds a subscription on
    acked,       \* x -> topics whose subscription the broker acknowledged
    subFailed,   \* x -> the result topic's subscribe token ended in error
    published,   \* x -> the ExecutionRequest was published
    logsSent,    \* x -> log lines published by the worker side
    resSent,     \* x -> result messages handed over by the broker side
    logWire,     \* x -> log messages delivered, not yet handled (in order)
    resWire,     \* x -> result payloads delivered, not yet handled
    closing,     \* x -> result handler invocations before their deferred Close
    terminated,  \* x -> a termination path of the execution ran to its end
    executions,  \* ids registered in the executions map
    EventChan,   \* x -> buffered events of ExecutionState.EventChan
    chanClosed,  \* x -> close(state.EventChan) happened
    enqueued,    \* x -> every event ever sent into EventChan (history)
    droppedLogs, \* x -> log events dropped by the non-blocking send
    timer,       \* x -> the one-minute removeExecution goroutine is pending
    wg,          \* x -> sync.WaitGroup counter of the sync branch
    finalStatus, \* x -> status computed by the sync branch
    httpStatus,  \* x -> HTTP status written for the execute request (0: none)
    sse,         \* x -> "none" | "open" | "eof" | "gone": streamLogs
    stream,      \* x -> events written to the SSE response
    panicked,    \* "" or the Go runtime panic that ended the coordinator
    unrouted,    \* x -> messages discarded for lack of a handler, per topic (history)
    \* workers
    wConnected,  \* w -> the OnConnect handler ran (announced and subscribed)
    trigSent,    \* ids whose ExecutionRequest was published on the trigger topic
    inbox,       \* w -> trigger messages delivered to w, handler not yet run
    inv,         \* w -> id -> position of executeAction / trigger for that message
    gil,         \* w -> id of the invocation holding the interpreter lock, or ""
    stdoutTarget,\* w -> id whose pipe sys.stdout and sys.stderr point to, or ""
    resultsPublished, \* id -> ResultResponse messages published on its result topic
    handledBy,   \* id -> workers whose executeAction ran for the request
    \* catalog
    actions,     \* mqttActionManager.actions: name -> MqttAction (a Go map)
    annWire,     \* announcement messages delivered, not yet handled (in order)
    annSent,     \* messages published on the announcement topics so far
    lastDelivered, \* name -> payload of the last message handled for the name
    lastApplied, \* name -> payload of the last handled message that was empty or decoded
    handled,     \* the messages onActionAnnounced has handled, in order (history)
    \* HTTP execute requests
    rejected,    \* names of the execute requests answered 404, in order (history)
    reqName,     \* x -> action name of the request that was given execution id x, or ""
    atConnect,   \* x -> what streamLogs found when the stream was opened (history)
    \* parameters of one execute request
    reqBody,     \* the "parameters" object of the request body as the client sent it
    params,      \* the map executeAction hands to trigger
    respId,      \* execution_id of the HTTP response
    executionRequest, \* the ExecutionRequest published on the trigger topic
    \* worker connections
    connects,    \* worker -> connect events so far
    wSubs,       \* worker -> trigger topics the broker holds a subscription for
    retained,    \* name -> payload the broker retains on tinpot/actions/{name}
    \* worker argument marshalling
    kwargs,      \* the JSON value of one parameter and the Python value built from it
    \* outcome of one execution
    outcome,     \* what the callable did, the ResultResponse, what the coordinator reports
    \* worker log
    dropLog,     \* worker -> "Failed to unmarshal action" lines logged
    \* worker log capture
    pipe,        \* w -> id -> lines in the pipe of the invocation, each by its writer
    reader,      \* w -> id -> "none" | "running" | "exited": the reader goroutine
    logPub,      \* LogEntry messages published: log topic and writer of the line
    written,     \* w -> id -> lines the callable of the invocation wrote so far
    readerIO,    \* one pipe at byte level: lines written, bytes unread, on_log calls
    connecting,  \* w -> the OnConnectHandler announced and has not subscribed yet
    clients      \* c -> streamLogs of client c: state and events written

execVars == <<mode, pc, subs, acked, subFailed, published, logsSent, resSent,
              logWire, resWire, closing, terminated, executions, EventChan,
              chanClosed, enqueued, droppedLogs, timer, wg, finalStatus,
              httpStatus, sse, stream, panicked, unrouted>>

workerVars == <<wConnected, trigSent, inbox, inv, gil, stdoutTarget,
                resultsPublished, handledBy>>

catalogVars == <<actions, annWire, annSent, lastDelivered, lastApplied, handled>>

requestVars == <<rejected, reqName, atConnect>>

paramVars == <<reqBody, params, respId, executionRequest>>

reconnectVars == <<connects, wSubs, retained>>

captureVars == <<pipe, reader, logPub, written>>

auxVars == <<captureVars, readerIO, connecting, clients>>

vars == <<execVars, workerVars, catalogVars, requestVars, paramVars, reconnectVars,
          kwargs, outcome, dropLog, auxVars>>

\* A payload on an announcement topic that was never seen.
NoPayload == [kind |-> "none", body |-> <<>>]

\* StreamEvent values.  seq numbers the log lines of one execution.
LogEvent(n) == [type |-> "log", seq |-> n, state |-> "INFO"]

CompleteEvent(st) == [type |-> "complete", seq |-> 0, state |-> st]

ConnectedEvent == [type |-> "connected", seq |-> 0, state |-> ""]

Init ==
    /\ mode = [x \in ExecIds |-> "none"]
    /\ pc = [x \in ExecIds |-> "none"]
    /\ subs = [x \in ExecIds |-> {}]
    /\ acked = [x \in ExecIds |-> {}]
    /\ subFailed = [x \in ExecIds |-> FALSE]
    /\ published = [x \in ExecIds |-> FALSE]
    /\ logsSent = [x \in ExecIds |-> 0]
    /\ resSent = [x \in ExecIds |-> 0]
    /\ logWire = [x \in ExecIds |-> <<>>]
    /\ resWire = [x \in ExecIds |-> <<>>]
    /\ closing = [x \in ExecIds |-> 0]
    /\ terminated = [x \in ExecIds |-> FALSE]
    /\ executions = {}
    /\ EventChan = [x \in ExecIds |-> <<>>]
    /\ chanClosed = [x \in ExecIds |-> FALSE]
    /\ enqueued = [x \in ExecIds |-> <<>>]
    /\ droppedLogs = [x \in ExecIds |-> 0]
    /\ timer = [x \in ExecIds |-> FALSE]
    /\ wg = [x \in ExecIds |-> 0]
    /\ finalStatus = [x \in ExecIds |-> ""]
    /\ httpStatus = [x \in ExecIds |-> 0]
    /\ sse = [x \in ExecIds |-> "none"]
    /\ stream = [x \in ExecIds |-> <<>>]
    /\ panicked = ""
    /\ unrouted = [x \in ExecIds |-> [log |-> 0, result |-> 0]]
    /\ wConnected = [w \in Workers |-> FALSE]
    /\ trigSent = {}
    /\ inbox = [w \in Workers |-> {}]
    /\ inv = [w \in Workers |-> [x \in TrigIds |-> "none"]]
    /\ gil = [w \in Workers |-> ""]
    /\ stdoutTarget = [w \in Workers |-> ""]
    /\ resultsPublished = [x \in TrigIds |-> 0]
    /\ handledBy = [x \in TrigIds |-> {}]
    /\ actions = <<>>
    /\ annWire = <<>>
    /\ annSent = 0
    /\ lastDelivered = [n \in Names |-> NoPayload]
    /\ lastApplied = [n \in Names |-> NoPayload]
    /\ handled = <<>>
    /\ rejected = <<>>
    /\ reqName = [x \in ExecIds |-> ""]
    /\ atConnect = [x \in ExecIds |-> [closed |-> FALSE, buffered |-> <<>>]]
    /\ reqBody = <<>>
    /\ params = <<>>
    /\ respId = ""
    /\ executionRequest = <<>>
    /\ connects = [w \in Workers |-> 0]
    /\ wSubs = [w \in Workers |-> {}]
    /\ retained = [n \in Names |-> NoPayload]
    /\ kwargs = <<>>
    /\ outcome = <<>>
    /\ dropLog = [w \in Workers |-> 0]
    /\ pipe = [w \in Workers |-> [x \in TrigIds |-> <<>>]]
    /\ reader = [w \in Workers |-> [x \in TrigIds |-> "none"]]
    /\ logPub = {}
    /\ written = [w \in Workers |-> [x \in TrigIds |-> 0]]
    /\ readerIO = <<>>
    /\ connecting = [w \in Workers |-> FALSE]
    /\ clients = [c \in Clients |-> [state |-> "none", events |-> <<>>]]


\* The coordinator process is alive (no goroutine has panicked).
Alive == panicked = ""

\* A send that always adds the event.
SendGrows(q, ev) == Append(q, ev)

\* select { case state.EventChan <- event: default: } on an open channel:
\* the event is buffered when there is room and discarded otherwise.
TrySend(q, ev) == IF Len(q) < QueueCap THEN Append(q, ev) ELSE q

\* A closer that covers the result topic only.
CloserTopicsResultOnly == {"result"}

\* Topics the closer of trigger unsubscribes from.
CloserTopics == {"result", "log"}

\* A termination path that does not call the closer.
CloserSkipped(x) == UNCHANGED <<subs, acked>>

\* closer.Close(): Unsubscribe(resultTopic, logTopic) and wait.
CloserClose(x) ==
    /\ subs' = [subs EXCEPT ![x] = @ \ CloserTopics]
    /\ acked' = [acked EXCEPT ![x] = @ \ CloserTopics]

\* executeAction, async branch: register the ExecutionState, start trigger in
\* a goroutine with both callbacks and answer 200 "submitted".
ExecuteAsync(x) ==
    /\ Alive
    /\ mode[x] = "none"
    /\ mode' = [mode EXCEPT ![x] = "async"]
    /\ executions' = executions \cup {x}
    /\ pc' = [pc EXCEPT ![x] = "start"]
    /\ httpStatus' = [httpStatus EXCEPT ![x] = 200]
    /\ UNCHANGED <<subs, acked, subFailed, published, logsSent, resSent,
                   logWire, resWire, closing, terminated, EventChan,
                   chanClosed, enqueued, droppedLogs, timer, wg, finalStatus,
                   sse, stream, panicked>>

\* executeAction, sync branch: wg.Add(1) and call trigger with a nil logs
\* callback; the HTTP answer is written by SyncReturn.
ExecuteSync(x) ==
    /\ Alive
    /\ mode[x] = "none"
    /\ mode' = [mode EXCEPT ![x] = "sync"]
    /\ wg' = [wg EXCEPT ![x] = 1]
    /\ pc' = [pc EXCEPT ![x] = "start"]
    /\ UNCHANGED <<subs, acked, subFailed, published, logsSent, resSent,
                   logWire, resWire, closing, terminated, executions,
                   EventChan, chanClosed, enqueued, droppedLogs, timer,
                   finalStatus, httpStatus, sse, stream, panicked>>

\* Topics trigger subscribes to: the log topic only when a logs callback was
\* supplied, the result topic always.
SubscribedTopics(x) == IF mode[x] = "async" THEN {"log", "result"} ELSE {"result"}

\* trigger: client.Subscribe(logTopic, ...) if logs != nil, then
\* client.Subscribe(resultTopic, ...).  Neither call blocks; trigger then
\* waits on the result topic's token only.
TriggerSubscribe(x) ==
    /\ Alive
    /\ pc[x] = "start"
    /\ subs' = [subs EXCEPT ![x] = SubscribedTopics(x)]
    /\ pc' = [pc EXCEPT ![x] = "waitSub"]
    /\ UNCHANGED <<mode, acked, subFailed, published, logsSent, resSent,
                   logWire, resWire, closing, terminated, executions,
                   EventChan, chanClosed, enqueued, droppedLogs, timer, wg,
                   finalStatus, httpStatus, sse, stream, panicked>>

\* The broker acknowledges one pending subscription.
BrokerSubAck(x, t) ==
    /\ Alive
    /\ t \in subs[x] \ acked[x]
    /\ ~(t = "result" /\ subFailed[x])
    /\ acked' = [acked EXCEPT ![x] = @ \cup {t}]
    /\ UNCHANGED <<mode, pc, subs, subFailed, published, logsSent, resSent,
                   logWire, resWire, closing, terminated, executions,
                   EventChan, chanClosed, enqueued, droppedLogs, timer, wg,
                   finalStatus, httpStatus, sse, stream, panicked>>

\* The result topic's subscribe token completes with an error.
BrokerSubFail(x) ==
    /\ Alive
    /\ pc[x] = "waitSub"
    /\ "result" \notin acked[x]
    /\ ~subFailed[x]
    /\ subFailed' = [subFailed EXCEPT ![x] = TRUE]
    /\ UNCHANGED <<mode, pc, subs, acked, published, logsSent, resSent,
                   logWire, resWire, closing, terminated, executions,
                   EventChan, chanClosed, enqueued, droppedLogs, timer, wg,
                   finalStatus, httpStatus, sse, stream, panicked>>

\* subToken.Wait() returns once the result token completed; an error is only
\* logged and trigger goes on to publish.
SubTokenDone(x) == "result" \in acked[x] \/ subFailed[x]

TriggerSubWait(x) ==
    /\ Alive
    /\ pc[x] = "waitSub"
    /\ SubTokenDone(x)
    /\ pc' = [pc EXCEPT ![x] = "publish"]
    /\ UNCHANGED <<mode, subs, acked, subFailed, published, logsSent, resSent,
                   logWire, resWire, closing, terminated, executions,
                   EventChan, chanClosed, enqueued, droppedLogs, timer, wg,
                   finalStatus, httpStatus, sse, stream, panicked>>

\* responseCallback of the async branch: send the complete event without
\* blocking, close the channel, start the removal timer.  A send on a closed
\* channel panics (the select's send case is ready on a closed channel).
responseCallback(x, st) ==
    IF chanClosed[x]
    THEN /\ panicked' = "responseCallback: send on closed channel"
         /\ UNCHANGED <<EventChan, chanClosed, enqueued, timer>>
    ELSE /\ EventChan' = [EventChan EXCEPT ![x] = TrySend(@, CompleteEvent(st))]
         /\ enqueued' = [enqueued EXCEPT ![x] =
                IF Len(EventChan[x]) < QueueCap
                THEN Append(@, CompleteEvent(st)) ELSE @]
         /\ chanClosed' = [chanClosed EXCEPT ![x] = TRUE]
         /\ timer' = [timer EXCEPT ![x] = TRUE]
         /\ UNCHANGED panicked

\* The callback of the sync branch: store the outcome, wg.Done().  Done on a
\* zero counter panics.
syncCallback(x, st) ==
    /\ finalStatus' = [finalStatus EXCEPT ![x] = st]
    /\ IF wg[x] = 0
       THEN /\ panicked' = "syncCallback: negative WaitGroup counter"
            /\ UNCHANGED wg
       ELSE /\ wg' = [wg EXCEPT ![x] = @ - 1]
            /\ UNCHANGED panicked

\* response(err, res) as executeAction passed it to trigger.
Response(x, st) ==
    IF mode[x] = "async"
    THEN responseCallback(x, st) /\ UNCHANGED <<wg, finalStatus>>
    ELSE syncCallback(x, st) /\ UNCHANGED <<EventChan, chanClosed, enqueued, timer>>

\* trigger: the publish token completed without error; trigger returns.
TriggerPublish(x) ==
    /\ Alive
    /\ pc[x] = "publish"
    /\ published' = [published EXCEPT ![x] = TRUE]
    /\ pc' = [pc EXCEPT ![x] = "returned"]
    /\ UNCHANGED <<mode, subs, acked, subFailed, logsSent, resSent, logWire,
                   resWire, closing, terminated, executions, EventChan,
                   chanClosed, enqueued, droppedLogs, timer, wg, finalStatus,
                   httpStatus, sse, stream, panicked>>

\* trigger: the publish token completed with an error: closer.Close(), then
\* response("failed to publish request: ...", nil).
TriggerPublishFail(x) ==
    /\ Alive
    /\ pc[x] = "publish"
    /\ pc' = [pc EXCEPT ![x] = "failed"]
    /\ CloserClose(x)
    /\ Response(x, "FAILURE")
    /\ terminated' = [terminated EXCEPT ![x] = TRUE]
    /\ UNCHANGED <<mode, subFailed, published, logsSent, resSent, logWire,
                   resWire, closing, executions, droppedLogs, httpStatus,
                   sse, stream>>

\* A worker's logsCallback publishes one LogEntry on the log topic; the
\* broker hands it to the coordinator if the log subscription is in place.
WorkerPublishLog(x) ==
    /\ published[x]
    /\ logsSent[x] < MaxLogs
    /\ logsSent' = [logsSent EXCEPT ![x] = @ + 1]
    /\ logWire' = [logWire EXCEPT ![x] =
           IF "log" \in acked[x] THEN Append(@, logsSent[x] + 1) ELSE @]
    /\ UNCHANGED <<mode, pc, subs, acked, subFailed, published, resSent,
                   resWire, closing, terminated, executions, EventChan,
                   chanClosed, enqueued, droppedLogs, timer, wg, finalStatus,
                   httpStatus, sse, stream, panicked>>

\* A ResultResponse (sendResult of a worker) or other payload on the result
\* topic; the broker hands it to the coordinator if the result subscription
\* is in place.  QoS 1 may hand the same message over again.
WorkerPublishResult(x, p) ==
    /\ published[x]
    /\ resSent[x] < MaxResults
    /\ "result" \in acked[x]
    /\ resSent' = [resSent EXCEPT ![x] = @ + 1]
    /\ resWire' = [resWire EXCEPT ![x] = Append(@, p)]
    /\ UNCHANGED <<mode, pc, subs, acked, subFailed, published, logsSent,
                   logWire, closing, terminated, executions, EventChan,
                   chanClosed, enqueued, droppedLogs, timer, wg, finalStatus,
                   httpStatus, sse, stream, panicked>>

\* A client that starts a goroutine per message: handlers overlap.
DispatcherNeverBusy == FALSE

\* The client's message goroutine is inside a handler: the result handler is
\* waiting in its deferred closer.Close().  (The log handler does not block.)
DispatcherBusy == \E y \in ExecIds : closing[y] > 0

\* The log topic's handler in trigger calling logCallback of executeAction:
\* a non-blocking send of the log event; on a closed channel the send panics.
LogHandler(x) ==
    /\ Alive
    /\ ~DispatcherBusy
    /\ logWire[x] # <<>>
    /\ "log" \in subs[x]
    /\ logWire' = [logWire EXCEPT ![x] = Tail(@)]
    /\ IF chanClosed[x]
       THEN /\ panicked' = "logCallback: send on closed channel"
            /\ UNCHANGED <<EventChan, enqueued, droppedLogs>>
       ELSE /\ EventChan' = [EventChan EXCEPT ![x] =
                   TrySend(@, LogEvent(Head(logWire[x])))]
            /\ enqueued' = [enqueued EXCEPT ![x] =
                   IF Len(EventChan[x]) < QueueCap
                   THEN Append(@, LogEvent(Head(logWire[x]))) ELSE @]
            /\ droppedLogs' = [droppedLogs EXCEPT ![x] =
                   IF Len(EventChan[x]) < QueueCap THEN @ ELSE @ + 1]
            /\ UNCHANGED panicked
    /\ UNCHANGED <<mode, pc, subs, acked, subFailed, published, logsSent,
                   resSent, resWire, closing, terminated, executions,
                   chanClosed, timer, wg, finalStatus, httpStatus, sse,
                   stream>>

\* A handler that decodes no payload.
handleResponseDecodesNothing(x, p) ==
    UNCHANGED <<EventChan, chanClosed, enqueued, timer, wg, finalStatus, panicked>>

\* handleResponse: a payload that does not decode is ignored, otherwise the
\* response callback is called with the outcome.
handleResponse(x, p) ==
    IF p = "undecodable"
    THEN UNCHANGED <<EventChan, chanClosed, enqueued, timer, wg, finalStatus,
                     panicked>>
    ELSE Response(x, p)

\* The result topic's handler in trigger, up to its deferred closer.Close().
ResultHandler(x) ==
    /\ Alive
    /\ ~DispatcherBusy
    /\ resWire[x] # <<>>
    /\ "result" \in subs[x]
    /\ resWire' = [resWire EXCEPT ![x] = Tail(@)]
    /\ handleResponse(x, Head(resWire[x]))
    /\ closing' = [closing EXCEPT ![x] = @ + 1]
    /\ UNCHANGED <<mode, pc, subs, acked, subFailed, published, logsSent,
                   resSent, logWire, terminated, executions, droppedLogs,
                   httpStatus, sse, stream>>

\* The result handler's deferred closer.Close(); the handler returns.
ResultHandlerClose(x) ==
    /\ Alive
    /\ closing[x] > 0
    /\ closing' = [closing EXCEPT ![x] = @ - 1]
    /\ CloserClose(x)
    /\ terminated' = [terminated EXCEPT ![x] = TRUE]
    /\ UNCHANGED <<mode, pc, subFailed, published, logsSent, resSent,
                   logWire, resWire, executions, EventChan, chanClosed,
                   enqueued, droppedLogs, timer, wg, finalStatus, httpStatus,
                   sse, stream, panicked>>

\* A delivered message on topic t of x finds no handler (the closer removed
\* it) and is discarded.
DiscardUnrouted(x, t) ==
    /\ Alive
    /\ ~DispatcherBusy
    /\ t \notin subs[x]
    /\ IF t = "log"
       THEN /\ logWire[x] # <<>>
            /\ logWire' = [logWire EXCEPT ![x] = Tail(@)]
            /\ UNCHANGED resWire
       ELSE /\ resWire[x] # <<>>
            /\ resWire' = [resWire EXCEPT ![x] = Tail(@)]
            /\ UNCHANGED logWire
    /\ unrouted' = [unrouted EXCEPT ![x][t] = @ + 1]
    /\ UNCHANGED <<mode, pc, subs, acked, subFailed, published, logsSent,
                   resSent, closing, terminated, executions, EventChan,
                   chanClosed, enqueued, droppedLogs, timer, wg, finalStatus,
                   httpStatus, sse, stream, panicked>>

\* executeAction, sync branch after trigger returned: wg.Wait() is released
\* when the counter is zero, then 200 with the computed status is written.
SyncReturn(x) ==
    /\ Alive
    /\ mode[x] = "sync"
    /\ pc[x] \in {"returned", "failed"}
    /\ wg[x] = 0
    /\ httpStatus[x] = 0
    /\ httpStatus' = [httpStatus EXCEPT ![x] = 200]
    /\ UNCHANGED <<mode, pc, subs, acked, subFailed, published, logsSent,
                   resSent, logWire, resWire, closing, terminated,
                   executions, EventChan, chanClosed, enqueued, droppedLogs,
                   timer, wg, finalStatus, sse, stream, panicked>>

\* The goroutine responseCallback started: after one minute,
\* removeExecution(execID).
RemoveExecution(x) ==
    /\ Alive
    /\ timer[x]
    /\ timer' = [timer EXCEPT ![x] = FALSE]
    /\ executions' = executions \ {x}
    /\ UNCHANGED <<mode, pc, subs, acked, subFailed, published, logsSent,
                   resSent, logWire, resWire, closing, terminated, EventChan,
                   chanClosed, enqueued, droppedLogs, wg, finalStatus,
                   httpStatus, sse, stream, panicked>>

\* streamLogs: the execution is registered; write the connected event.
StreamConnect(x) ==
    /\ Alive
    /\ x \in executions
    /\ sse[x] = "none"
    /\ sse' = [sse EXCEPT ![x] = "open"]
    /\ stream' = [stream EXCEPT ![x] = <<ConnectedEvent>>]
    /\ atConnect' = [atConnect EXCEPT ![x] =
           [closed |-> chanClosed[x], buffered |-> EventChan[x]]]
    /\ UNCHANGED <<mode, pc, subs, acked, subFailed, published, logsSent,
                   resSent, logWire, resWire, closing, terminated,
                   executions, EventChan, chanClosed, enqueued, droppedLogs,
                   timer, wg, finalStatus, httpStatus, panicked>>

\* A stream that takes the newest event of the queue.
StreamReadNewest(x) ==
    /\ Alive
    /\ sse[x] = "open"
    /\ EventChan[x] # <<>>
    /\ stream' = [stream EXCEPT ![x] = Append(@, EventChan[x][Len(EventChan[x])])]
    /\ EventChan' = [EventChan EXCEPT ![x] = SubSeq(@, 1, Len(@) - 1)]
    /\ UNCHANGED <<mode, pc, subs, acked, subFailed, published, logsSent,
                   resSent, logWire, resWire, closing, terminated,
                   executions, chanClosed, enqueued, droppedLogs, timer, wg,
                   finalStatus, httpStatus, sse, panicked>>

\* streamLogs: one event received from EventChan and written.  A closed
\* channel still yields its buffered events.
StreamRead(x) ==
    /\ Alive
    /\ sse[x] = "open"
    /\ EventChan[x] # <<>>
    /\ stream' = [stream EXCEPT ![x] = Append(@, Head(EventChan[x]))]
    /\ EventChan' = [EventChan EXCEPT ![x] = Tail(@)]
    /\ UNCHANGED <<mode, pc, subs, acked, subFailed, published, logsSent,
                   resSent, logWire, resWire, closing, terminated,
                   executions, chanClosed, enqueued, droppedLogs, timer, wg,
                   finalStatus, httpStatus, sse, panicked>>

\* A streamer that returns as soon as the queue is closed.
StreamEOFEager(x) ==
    /\ Alive
    /\ sse[x] = "open"
    /\ chanClosed[x]
    /\ sse' = [sse EXCEPT ![x] = "eof"]
    /\ UNCHANGED <<mode, pc, subs, acked, subFailed, published, logsSent,
                   resSent, logWire, resWire, closing, terminated,
                   executions, EventChan, chanClosed, enqueued, droppedLogs,
                   timer, wg, finalStatus, httpStatus, stream, panicked>>

\* streamLogs: the receive reports the channel closed and drained; return.
StreamEOF(x) ==
    /\ Alive
    /\ sse[x] = "open"
    /\ EventChan[x] = <<>>
    /\ chanClosed[x]
    /\ sse' = [sse EXCEPT ![x] = "eof"]
    /\ UNCHANGED <<mode, pc, subs, acked, subFailed, published, logsSent,
                   resSent, logWire, resWire, closing, terminated,
                   executions, EventChan, chanClosed, enqueued, droppedLogs,
                   timer, wg, finalStatus, httpStatus, stream, panicked>>

\* A streamer that closes the queue when its client goes away.
StreamDisconnectCloses(x) ==
    /\ Alive
    /\ sse[x] = "open"
    /\ sse' = [sse EXCEPT ![x] = "gone"]
    /\ chanClosed' = [chanClosed EXCEPT ![x] = TRUE]
    /\ UNCHANGED <<mode, pc, subs, acked, subFailed, published, logsSent,
                   resSent, logWire, resWire, closing, terminated,
                   executions, EventChan, enqueued, droppedLogs,
                   timer, wg, finalStatus, httpStatus, stream, panicked>>

\* streamLogs: the request context is done (client gone); return.
StreamDisconnect(x) ==
    /\ Alive
    /\ sse[x] = "open"
    /\ sse' = [sse EXCEPT ![x] = "gone"]
    /\ UNCHANGED <<mode, pc, subs, acked, subFailed, published, logsSent,
                   resSent, logWire, resWire, closing, terminated,
                   executions, EventChan, chanClosed, enqueued, droppedLogs,
                   timer, wg, finalStatus, httpStatus, stream, panicked>>

\* The steps of the execution path leave the workers and the catalog alone.
OtherFrame == UNCHANGED <<workerVars, catalogVars, requestVars, paramVars,
                   reconnectVars, kwargs, outcome, dropLog, auxVars>>

\* Only DiscardUnrouted counts discarded messages.
ExecFrame == OtherFrame /\ UNCHANGED unrouted

\* StreamConnect records what it found.
ConnectFrame ==
    UNCHANGED <<workerVars, catalogVars, rejected, reqName, unrouted, paramVars,
                   reconnectVars, kwargs, outcome, dropLog, auxVars>>

NextExec ==
    \E x \in ExecIds :
        \/ ExecuteAsync(x) /\ ExecFrame
        \/ ExecuteSync(x) /\ ExecFrame
        \/ TriggerSubscribe(x) /\ ExecFrame
        \/ \E t \in Topics : BrokerSubAck(x, t) /\ ExecFrame
        \/ BrokerSubFail(x) /\ ExecFrame
        \/ TriggerSubWait(x) /\ ExecFrame
        \/ TriggerPublish(x) /\ ExecFrame
        \/ TriggerPublishFail(x) /\ ExecFrame
        \/ WorkerPublishLog(x) /\ ExecFrame
        \/ \E p \in ResultPayloads : WorkerPublishResult(x, p) /\ ExecFrame
        \/ LogHandler(x) /\ ExecFrame
        \/ ResultHandler(x) /\ ExecFrame
        \/ ResultHandlerClose(x) /\ ExecFrame
        \/ \E t \in Topics : DiscardUnrouted(x, t) /\ OtherFrame
        \/ SyncReturn(x) /\ ExecFrame
        \/ RemoveExecution(x) /\ ExecFrame
        \/ StreamConnect(x) /\ ConnectFrame
        \/ StreamRead(x) /\ ExecFrame
        \/ StreamEOF(x) /\ ExecFrame
        \/ StreamDisconnect(x) /\ ExecFrame

SpecExec == Init /\ [][NextExec]_vars

(***************************************************************************)
(* Claims on the coordinator's execution path (SpecExec).                  *)
(***************************************************************************)

\* Number of complete events in a sequence of events.
CompleteCount(q) == Cardinality({i \in 1..Len(q) : q[i].type = "complete"})

\* C1: subscribe-before-publish.  The step that publishes the
\* ExecutionRequest of x is taken only when the broker has acknowledged the
\* subscription to the result topic and, in async mode, to the log topic.
SubscribeBeforePublish ==
    [][\A x \in ExecIds :
          (~published[x] /\ published'[x]) => SubscribedTopics(x) \subseteq acked[x]]_vars

\* C2: result uniqueness.  Once the event queue of an async execution is
\* closed, exactly one complete event was enqueued into it over its lifetime
\* and it is the last event enqueued.
ResultUniqueness ==
    \A x \in ExecIds :
        (mode[x] = "async" /\ chanClosed[x]) =>
            /\ CompleteCount(enqueued[x]) = 1
            /\ enqueued[x][Len(enqueued[x])].type = "complete"

\* C3: completion survives overflow.  For an execution whose logs exceeded
\* the queue capacity, closing the queue means the complete event was
\* enqueued, and an SSE subscriber that drained the queue to end-of-stream
\* has been sent the complete event.
CompletionSurvivesOverflow ==
    \A x \in ExecIds :
        logsSent[x] > QueueCap =>
            /\ chanClosed[x] => CompleteCount(enqueued[x]) >= 1
            /\ sse[x] = "eof" => CompleteCount(stream[x]) >= 1

\* The response callback of x has run: the queue is closed (async) or the
\* outcome is stored and the WaitGroup released (sync).
Completed(x) ==
    IF mode[x] = "async" THEN chanClosed[x] ELSE finalStatus[x] # ""

InCall == {"calling", "yielded"}

\* OnConnectHandler: announceActions then subscribeToActions; the worker is
\* now subscribed to the plain topic tinpot/actions/{name}/trigger.
WorkerConnect(w) ==
    /\ ~wConnected[w]
    /\ wConnected' = [wConnected EXCEPT ![w] = TRUE]
    /\ UNCHANGED <<trigSent, inbox, inv, gil, stdoutTarget, resultsPublished,
                   handledBy>>

\* Workers the broker delivers a message on the trigger topic to: every
\* client subscribed to the topic.
TriggerReceivers == {w \in Workers : wConnected[w]}

\* The coordinator publishes the ExecutionRequest of x on the trigger topic;
\* the broker delivers it to the subscribers of the topic.
PublishTrigger(x) ==
    /\ x \notin trigSent
    /\ trigSent' = trigSent \cup {x}
    /\ inbox' = [w \in Workers |->
                    IF w \in TriggerReceivers THEN inbox[w] \cup {x} ELSE inbox[w]]
    /\ UNCHANGED <<wConnected, inv, gil, stdoutTarget, resultsPublished,
                   handledBy>>

\* The subscription handler starts go executeAction(mgr, cl, act.Name, msg):
\* the request decodes, the callbacks are built, trigger is entered.
ExecuteActionStart(w, x) ==
    /\ x \in inbox[w]
    /\ inbox' = [inbox EXCEPT ![w] = @ \ {x}]
    /\ inv' = [inv EXCEPT ![w][x] = "entered"]
    /\ handledBy' = [handledBy EXCEPT ![x] = @ \cup {w}]
    /\ UNCHANGED <<wConnected, trigSent, gil, stdoutTarget, resultsPublished>>

\* trigger: setupLogCapture(logs) takes the GIL, points sys.stdout and
\* sys.stderr at this invocation's pipe, and releases the GIL.
SetupLogCapture(w, x) ==
    /\ inv[w][x] = "entered"
    /\ gil[w] = ""
    /\ stdoutTarget' = [stdoutTarget EXCEPT ![w] = x]
    /\ inv' = [inv EXCEPT ![w][x] = "captured"]
    /\ UNCHANGED <<wConnected, trigSent, inbox, gil, resultsPublished,
                   handledBy>>

\* The guard of PyGILState_Ensure in trigger: the lock is free.  trigger
\* takes no other lock (execMu of pyActionManager is never locked).
CanEnterInterpreter(w) == gil[w] = ""

\* trigger: PyGILState_Ensure(), build kwargs, enter the interpreter call.
EnterCall(w, x) ==
    /\ inv[w][x] = "captured"
    /\ CanEnterInterpreter(w)
    /\ gil' = [gil EXCEPT ![w] = x]
    /\ inv' = [inv EXCEPT ![w][x] = "calling"]
    /\ UNCHANGED <<wConnected, trigSent, inbox, stdoutTarget,
                   resultsPublished, handledBy>>

\* Inside the call the callable blocks and the interpreter releases the GIL.
PyYield(w, x) ==
    /\ inv[w][x] = "calling"
    /\ gil' = [gil EXCEPT ![w] = ""]
    /\ inv' = [inv EXCEPT ![w][x] = "yielded"]
    /\ UNCHANGED <<wConnected, trigSent, inbox, stdoutTarget,
                   resultsPublished, handledBy>>

\* The callable goes on: the interpreter takes the GIL again.
PyResume(w, x) ==
    /\ inv[w][x] = "yielded"
    /\ gil[w] = ""
    /\ gil' = [gil EXCEPT ![w] = x]
    /\ inv' = [inv EXCEPT ![w][x] = "calling"]
    /\ UNCHANGED <<wConnected, trigSent, inbox, stdoutTarget,
                   resultsPublished, handledBy>>

\* trigger: the call returned; response(errMsg, result) makes executeAction
\* publish one ResultResponse (sendResult); the deferred calls release the
\* GIL and close the pipe.
CallReturn(w, x) ==
    /\ inv[w][x] = "calling"
    /\ resultsPublished' = [resultsPublished EXCEPT ![x] = @ + 1]
    /\ gil' = [gil EXCEPT ![w] = ""]
    /\ inv' = [inv EXCEPT ![w][x] = "done"]
    /\ UNCHANGED <<wConnected, trigSent, inbox, stdoutTarget, handledBy>>

\* A Go panic inside trigger (a nil object from the interpreter bindings, a
\* failed assertion): neither trigger nor executeAction nor main recovers,
\* so the runtime ends the worker process with all its goroutines; nothing
\* is published for x and the messages the process held are gone.
TriggerPanics(w, x) ==
    /\ inv[w][x] \in {"entered", "captured", "calling"}
    /\ inv' = [inv EXCEPT ![w] =
           [y \in TrigIds |->
               IF y = x THEN "panicked"
               ELSE IF inv[w][y] \in {"none", "done", "panicked", "killed"}
                    THEN inv[w][y] ELSE "killed"]]
    /\ gil' = [gil EXCEPT ![w] = ""]
    /\ inbox' = [inbox EXCEPT ![w] = {}]
    /\ wConnected' = [wConnected EXCEPT ![w] = FALSE]
    /\ UNCHANGED <<trigSent, stdoutTarget, resultsPublished, handledBy>>

\* A payload on the trigger topic that json.Unmarshal rejects.
MalformedTrigger == "malformed"

\* Triggers that do not decode, per worker.
MaxMalformed == 1

\* Some client publishes a malformed payload on the trigger topic; the broker
\* delivers it to the subscribers of the topic.
PublishMalformedTrigger ==
    /\ \A w \in Workers : MalformedTrigger \notin inbox[w] /\ dropLog[w] < MaxMalformed
    /\ TriggerReceivers # {}
    /\ inbox' = [w \in Workers |->
                    IF w \in TriggerReceivers
                    THEN inbox[w] \cup {MalformedTrigger} ELSE inbox[w]]
    /\ UNCHANGED <<wConnected, trigSent, inv, gil, stdoutTarget, resultsPublished,
                   handledBy, dropLog>>
    /\ UNCHANGED <<execVars, catalogVars, requestVars, paramVars, reconnectVars,
                   kwargs, outcome, auxVars>>

\* An executeAction that runs trigger for a payload it could not decode.
ExecuteActionRunsAnyway(w) ==
    /\ MalformedTrigger \in inbox[w]
    /\ inbox' = [inbox EXCEPT ![w] = @ \ {MalformedTrigger}]
    /\ dropLog' = [dropLog EXCEPT ![w] = @ + 1]
    /\ stdoutTarget' = [stdoutTarget EXCEPT ![w] = MalformedTrigger]
    /\ UNCHANGED <<wConnected, trigSent, inv, gil, resultsPublished, handledBy>>
    /\ UNCHANGED <<execVars, catalogVars, requestVars, paramVars, reconnectVars,
                   kwargs, outcome, auxVars>>

\* go executeAction for a payload that does not decode: log and return.
ExecuteActionDrop(w) ==
    /\ MalformedTrigger \in inbox[w]
    /\ inbox' = [inbox EXCEPT ![w] = @ \ {MalformedTrigger}]
    /\ dropLog' = [dropLog EXCEPT ![w] = @ + 1]
    /\ UNCHANGED <<wConnected, trigSent, inv, gil, stdoutTarget, resultsPublished,
                   handledBy>>
    /\ UNCHANGED <<execVars, catalogVars, requestVars, paramVars, reconnectVars,
                   kwargs, outcome, auxVars>>

\* The steps of the workers leave the coordinator alone.
WorkerFrame == UNCHANGED <<execVars, catalogVars, requestVars, paramVars,
                   reconnectVars, kwargs, outcome, dropLog, auxVars>>

NextWorker ==
    \/ \E w \in Workers : WorkerConnect(w) /\ WorkerFrame
    \/ \E x \in TrigIds : PublishTrigger(x) /\ WorkerFrame
    \/ \E w \in Workers, x \in TrigIds :
         \/ ExecuteActionStart(w, x) /\ WorkerFrame
         \/ SetupLogCapture(w, x) /\ WorkerFrame
         \/ EnterCall(w, x) /\ WorkerFrame
         \/ PyYield(w, x) /\ WorkerFrame
         \/ PyResume(w, x) /\ WorkerFrame
         \/ CallReturn(w, x) /\ WorkerFrame
         \/ TriggerPanics(w, x) /\ WorkerFrame
    \/ PublishMalformedTrigger
    \/ \E w \in Workers : ExecuteActionDrop(w)

SpecWorker == Init /\ [][NextWorker]_vars

HandledByOneWorker ==
    \A x \in TrigIds : Cardinality(handledBy[x]) <= 1

\* C9: for each execution id at most one ResultResponse is ever published
\* on its result topic, over all workers.
AtMostOneResult ==
    \A x \in TrigIds : resultsPublished[x] <= 1

(***************************************************************************)
(* The coordinator's catalog (SpecCatalog).  A payload is empty, bytes     *)
(* that are not a JSON object, or a JSON object given by its keys.         *)
(***************************************************************************)

\* triggerTopicForAction: tinpot/actions/{name}/trigger.
triggerTopicForAction(n) == <<"tinpot", "actions", n, "trigger">>

EmptyPayload == [kind |-> "empty", body |-> <<>>]

GarbagePayload == [kind |-> "garbage", body |-> <<>>]

\* json.Marshal(toMqttAction(act)) as a worker announces it.
AnnouncePayload(n) ==
    [kind |-> "json",
     body |-> [description |-> "run", trigger_topic |-> triggerTopicForAction(n)]]

\* An object with a key MqttAction does not have and without trigger_topic.
OtherPayload(n) ==
    [kind |-> "json", body |-> [name |-> n, description |-> "other"]]

\* Payloads published on tinpot/actions/{n}.
Payloads(n) == {EmptyPayload, GarbagePayload, AnnouncePayload(n), OtherPayload(n)}

\* json.Unmarshal(payload, &act) into a zero MqttAction: known keys are
\* stored, unknown keys are ignored, missing keys stay zero.
Unmarshal(body) ==
    [Description |-> IF "description" \in DOMAIN body THEN body.description ELSE "",
     TriggerTopic |-> IF "trigger_topic" \in DOMAIN body THEN body.trigger_topic ELSE <<>>]

\* A handler that keeps the entry on an empty payload.
MapKeep(m, n) == m

\* delete(m.actions, name)
MapDelete(m, n) == [k \in DOMAIN m \ {n} |-> m[k]]

\* m.actions[name] = act
MapStore(m, n, act) == [k \in DOMAIN m \cup {n} |-> IF k = n THEN act ELSE m[k]]

\* A handler that removes an entry that is announced again.
AnnouncedToggles(m, n, p) ==
    IF p.kind = "empty" THEN MapDelete(m, n)
    ELSE IF p.kind = "garbage" THEN m
    ELSE IF n \in DOMAIN m THEN MapDelete(m, n)
    ELSE MapStore(m, n, Unmarshal(p.body))

\* A handler that stores the zero MqttAction when the payload does not
\* decode (no return after the failed json.Unmarshal).
AnnouncedStoresZero(m, n, p) ==
    IF p.kind = "empty" THEN MapDelete(m, n)
    ELSE IF p.kind = "garbage" THEN MapStore(m, n, Unmarshal(<<>>))
    ELSE MapStore(m, n, Unmarshal(p.body))

\* The catalog after onActionAnnounced handled payload p on the topic of n:
\* empty removes the name, a payload that does not decode changes nothing,
\* a decoded payload replaces the entry.
Announced(m, n, p) ==
    IF p.kind = "empty" THEN MapDelete(m, n)
    ELSE IF p.kind = "garbage" THEN m
    ELSE MapStore(m, n, Unmarshal(p.body))

\* Some client publishes payload p on tinpot/actions/{n}; the broker
\* delivers it to the coordinator's subscription on tinpot/actions/+.
PublishAnnouncement(n, p) ==
    /\ annSent < MaxAnnounce
    /\ annSent' = annSent + 1
    /\ annWire' = Append(annWire, [name |-> n, payload |-> p])
    /\ UNCHANGED <<actions, lastDelivered, lastApplied, handled>>

\* A topic suffix with a further level: tinpot/actions/a/trigger.
OffTopic == "a/trigger"

\* strings.Split(topic, "/") of the topic tinpot/actions/{n}.
TopicParts(n) ==
    IF n = OffTopic THEN <<"tinpot", "actions", "a", "trigger">>
    ELSE <<"tinpot", "actions", n>>

\* onActionAnnounced for the next delivered message: a topic that does not
\* split into three parts is skipped.
onActionAnnounced ==
    /\ annWire # <<>>
    /\ LET n == Head(annWire).name
           p == Head(annWire).payload
       IN IF Len(TopicParts(n)) # 3
          THEN UNCHANGED <<actions, lastDelivered, lastApplied>>
          ELSE /\ actions' = Announced(actions, n, p)
               /\ lastDelivered' = [lastDelivered EXCEPT ![n] = p]
               /\ lastApplied' = [lastApplied EXCEPT ![n] =
                                     IF p.kind = "garbage" THEN @ ELSE p]
    /\ handled' = Append(handled, Head(annWire))
    /\ annWire' = Tail(annWire)
    /\ UNCHANGED annSent

\* GetAction(name) / the entry of ListActions: the stored action, or nil.
Lookup(n) == IF n \in DOMAIN actions THEN <<actions[n]>> ELSE <<>>

\* The steps of the catalog leave the executions and the workers alone.
CatalogFrame == UNCHANGED <<execVars, workerVars, requestVars, paramVars,
                   reconnectVars, kwargs, outcome, dropLog, auxVars>>

NextCatalog ==
    \/ \E n \in Names : \E p \in Payloads(n) : PublishAnnouncement(n, p) /\ CatalogFrame
    \/ onActionAnnounced /\ CatalogFrame

\* The broker client calls the handler for every message it was delivered.
SpecCatalog == Init /\ [][NextCatalog]_vars /\ WF_vars(onActionAnnounced /\ CatalogFrame)

\* What Lookup has to return for a name whose last message was p.
Reflects(n, p) ==
    IF p.kind = "empty" THEN Lookup(n) = <<>>
    ELSE Lookup(n) = <<Unmarshal(p.body)>>

\* C10 as stated: for every name with a handled message, Lookup reflects the
\* last message handled for it: absent if it was empty, its decoded payload
\* if it was not empty.
CatalogMirrorsLastMessage ==
    \A n \in Names :
        lastDelivered[n].kind # "none" =>
            /\ lastDelivered[n].kind \in {"empty", "json"}
            /\ Reflects(n, lastDelivered[n])

\* A decodable announcement for n was delivered and is not yet handled.
AnnouncementPending(n) ==
    \E i \in 1..Len(annWire) :
        annWire[i].name = n /\ annWire[i].payload.kind = "json"

\* C10 amended: Lookup reflects the last handled message that was empty or
\* decoded (a payload that does not decode leaves the entry as it was), a
\* name with no such message is absent, and a name with a delivered
\* decodable announcement is eventually in the catalog.
CatalogMirrorsLastApplied ==
    /\ [](\A n \in Names :
            IF lastApplied[n].kind = "none" THEN Lookup(n) = <<>>
            ELSE Reflects(n, lastApplied[n]))
    /\ \A n \in Names : AnnouncementPending(n) ~> (n \in DOMAIN actions)

\* C10 witness: an announcement was replaced by a later one for the same
\* name, then a payload that does not decode was handled for it.
CatalogMirrorsWitness ==
    \E n \in Names :
        /\ lastDelivered[n].kind = "garbage"
        /\ lastApplied[n] = AnnouncePayload(n)
        /\ annSent = MaxAnnounce /\ annWire = <<>>
        /\ Lookup(n) = <<Unmarshal(AnnouncePayload(n).body)>>

(***************************************************************************)
(* Dispatch of HTTP execute requests against the catalog (SpecDispatch):   *)
(* the catalog steps, executeAction up to the mode branch, and trigger up  *)
(* to the publication.                                                     *)
(***************************************************************************)

\* 404 answers recorded in one run.
MaxRejected == 1

\* Announcement messages in one run of the dispatch specification (an
\* announcement and its withdrawal).
MaxDispatchAnnounce == 2

\* ListActions(): name -> ActionInfo, as GET /api/actions returns it.
ListActions ==
    [n \in DOMAIN actions |-> [Name |-> n, Description |-> actions[n].Description]]

\* An executeAction without the GetAction check.
ExecuteRequestUnchecked(n, sync) ==
    /\ \E x \in ExecIds :
          /\ reqName[x] = ""
          /\ IF sync THEN ExecuteSync(x) ELSE ExecuteAsync(x)
          /\ reqName' = [reqName EXCEPT ![x] = n]
    /\ UNCHANGED <<rejected, atConnect, unrouted, workerVars, catalogVars,
                         paramVars,
                   reconnectVars, kwargs, outcome, dropLog, auxVars>>

\* executeAction for POST /api/actions/{n}/execute (sync = FALSE) or
\* /sync_execute (sync = TRUE): 404 when GetAction(n) is nil, before an
\* execution id exists; otherwise a fresh id x and the mode branch.
ExecuteRequest(n, sync) ==
    IF Lookup(n) = <<>>
    THEN /\ Len(rejected) < MaxRejected
         /\ rejected' = Append(rejected, [name |-> n, at |-> Len(handled)])
         /\ UNCHANGED <<execVars, workerVars, catalogVars, reqName, atConnect, paramVars,
                   reconnectVars, kwargs, outcome, dropLog, auxVars>>
    ELSE /\ \E x \in ExecIds :
               /\ reqName[x] = ""
               /\ IF sync THEN ExecuteSync(x) ELSE ExecuteAsync(x)
               /\ reqName' = [reqName EXCEPT ![x] = n]
         /\ UNCHANGED <<rejected, atConnect, unrouted, workerVars, catalogVars,
                         paramVars,
                   reconnectVars, kwargs, outcome, dropLog, auxVars>>

NextDispatch ==
    \/ \E n \in Names : \E p \in Payloads(n) :
         annSent < MaxDispatchAnnounce /\ PublishAnnouncement(n, p) /\ CatalogFrame
    \/ onActionAnnounced /\ CatalogFrame
    \/ \E n \in Names : \E sync \in BOOLEAN : ExecuteRequest(n, sync)
    \/ \E x \in ExecIds :
         \/ TriggerSubscribe(x) /\ ExecFrame
         \/ \E t \in Topics : BrokerSubAck(x, t) /\ ExecFrame
         \/ BrokerSubFail(x) /\ ExecFrame
         \/ TriggerSubWait(x) /\ ExecFrame
         \/ TriggerPublish(x) /\ ExecFrame
         \/ TriggerPublishFail(x) /\ ExecFrame

SpecDispatch == Init /\ [][NextDispatch]_vars

\* C11: withdrawal.  While the last message handled for a name is the empty
\* one, GET /api/actions does not list the name and no execute or
\* sync_execute request for it is given an execution (each is answered 404).
Withdrawal ==
    /\ [](\A n \in Names :
            lastDelivered[n].kind = "empty" => n \notin DOMAIN ListActions)
    /\ [][\A x \in ExecIds :
            reqName'[x] # reqName[x] => lastDelivered[reqName'[x]].kind # "empty"]_vars

\* C11 witness: a name was announced, then withdrawn, and a request for it
\* made after the withdrawal was answered 404.
WithdrawalWitness ==
    \E i \in 1..Len(rejected) : \E k \in 2..Len(handled) :
        /\ rejected[i].at = k
        /\ handled[k] = [name |-> rejected[i].name, payload |-> EmptyPayload]
        /\ handled[k - 1] = [name |-> rejected[i].name,
                             payload |-> AnnouncePayload(rejected[i].name)]

\* C12: announcement idempotence.  Handling a non-empty announcement that
\* equals the last message handled for the same name leaves ListActions and
\* every GetAction result as they were.
AnnouncementIdempotence ==
    [][(handled' # handled
          /\ Head(annWire).payload.kind # "empty"
          /\ lastDelivered[Head(annWire).name] = Head(annWire).payload) =>
            /\ ListActions' = ListActions
            /\ \A n \in Names : Lookup(n)' = Lookup(n)]_vars

\* C12 witness: the same decodable announcement was handled twice in a row
\* and the name is in the catalog.
AnnouncementIdempotenceWitness ==
    \E i \in 1..(Len(handled) - 1) :
        /\ handled[i] = handled[i + 1]
        /\ handled[i].payload.kind = "json"
        /\ i + 1 = Len(handled)
        /\ Lookup(handled[i].name) = <<Unmarshal(handled[i].payload.body)>>

\* C13: unknown action.  A request answered 404 names an action that is not
\* in the catalog and changes nothing of the executions (no subscription,
\* no publication, no ExecutionState); a request that is given an execution
\* names an action of the catalog; broker traffic and registry entries
\* exist only for requests that were given an execution.
UnknownAction ==
    /\ [][rejected' # rejected =>
            /\ Lookup(rejected'[Len(rejected')].name) = <<>>
            /\ UNCHANGED <<execVars, workerVars>>]_vars
    /\ [][\A x \in ExecIds :
            reqName'[x] # reqName[x] => Lookup(reqName'[x]) # <<>>]_vars
    /\ [](\A x \in ExecIds :
            (subs[x] # {} \/ published[x] \/ x \in executions) => reqName[x] # "")

\* C13 witness: a request was answered 404 while the catalog held another
\* action, and nothing was subscribed, published or registered.
UnknownActionWitness ==
    /\ Len(rejected) >= 1
    /\ actions # <<>>
    /\ rejected[1].name \notin DOMAIN actions
    /\ executions = {}
    /\ \A x \in ExecIds : subs[x] = {} /\ ~published[x] /\ mode[x] = "none"

(***************************************************************************)
(* Progress of the execution path.  The goroutines of the coordinator run  *)
(* when they can, and the broker answers a subscribe request; whether a    *)
(* worker answers, and what an HTTP client does, is left open.             *)
(***************************************************************************)

\* A step of the coordinator's goroutines or of the broker for some execution.
ProgressExec ==
    \E x \in ExecIds :
        \/ (\/ TriggerSubscribe(x)
            \/ \E t \in Topics : BrokerSubAck(x, t)
            \/ TriggerSubWait(x)
            \/ TriggerPublish(x)
            \/ LogHandler(x)
            \/ ResultHandler(x)
            \/ ResultHandlerClose(x)
            \/ SyncReturn(x)
            \/ StreamRead(x)
            \/ StreamEOF(x)) /\ ExecFrame
        \/ \E t \in Topics : DiscardUnrouted(x, t) /\ OtherFrame

SpecExecFair == Init /\ [][NextExec]_vars /\ WF_vars(ProgressExec)

\* C14: sync deadline.  Every sync_execute request is eventually answered,
\* with HTTP 200 (result received) or HTTP 504 (deadline reached).
SyncDeadline ==
    \A x \in ExecIds : (mode[x] = "sync") ~> (httpStatus[x] \in {200, 504})

(***************************************************************************)
(* The happy path (SpecHappy): an announced action, a broker that answers  *)
(* the subscribe requests in the order it received them, a publication     *)
(* that succeeds, and a worker whose callable prints HappyLogs lines and   *)
(* returns ActionResult without raising.  The lines are published by the   *)
(* reader goroutine of setupLogCapture, the result by trigger itself.      *)
(***************************************************************************)

\* Lines the callable prints (fewer than the queue holds).
HappyLogs == 1

\* The JSON object the callable returns.
ActionResult == [files_deleted |-> 42]

\* res as handleResponse passes it to the response callback for outcome st:
\* the Result of a SUCCESS response, nil otherwise.
ResultOf(st) == IF st = "SUCCESS" THEN <<ActionResult>> ELSE <<>>

\* The SyncExecutionResponse written by the sync branch.
SyncExecutionResponse(x) ==
    [ExecutionID |-> x,
     ActionName |-> reqName[x],
     Status |-> IF finalStatus[x] = "SUCCESS" THEN "SUCCESS" ELSE "FAILURE",
     Result |-> ResultOf(finalStatus[x])]

\* The broker answers SUBSCRIBE packets of one client in order: the result
\* topic (subscribed second) is acknowledged after the log topic.
BrokerSubAckInOrder(x, t) ==
    /\ t = "result" => "log" \notin subs[x] \ acked[x]
    /\ BrokerSubAck(x, t)

\* A step of the coordinator, the broker or the worker on the happy path.
ProgressHappy ==
    \E x \in ExecIds :
        \/ (\/ TriggerSubscribe(x)
            \/ \E t \in Topics : BrokerSubAckInOrder(x, t)
            \/ TriggerSubWait(x)
            \/ TriggerPublish(x)
            \/ WorkerPublishResult(x, "SUCCESS")
            \/ LogHandler(x)
            \/ ResultHandler(x)
            \/ ResultHandlerClose(x)
            \/ SyncReturn(x)
            \/ StreamRead(x)
            \/ StreamEOF(x)) /\ ExecFrame
        \/ \E t \in Topics : DiscardUnrouted(x, t) /\ OtherFrame

NextHappy ==
    \/ \E n \in Names :
         annSent < MaxDispatchAnnounce /\ PublishAnnouncement(n, AnnouncePayload(n))
             /\ CatalogFrame
    \/ onActionAnnounced /\ CatalogFrame
    \/ \E n \in Names : \E sync \in BOOLEAN : ExecuteRequest(n, sync)
    \/ \E x \in ExecIds :
         \/ TriggerSubscribe(x) /\ ExecFrame
         \/ \E t \in Topics : BrokerSubAckInOrder(x, t) /\ ExecFrame
         \/ TriggerSubWait(x) /\ ExecFrame
         \/ TriggerPublish(x) /\ ExecFrame
         \/ logsSent[x] < HappyLogs /\ WorkerPublishLog(x) /\ ExecFrame
         \/ WorkerPublishResult(x, "SUCCESS") /\ ExecFrame
         \/ LogHandler(x) /\ ExecFrame
         \/ ResultHandler(x) /\ ExecFrame
         \/ ResultHandlerClose(x) /\ ExecFrame
         \/ \E t \in Topics : DiscardUnrouted(x, t) /\ OtherFrame
         \/ SyncReturn(x) /\ ExecFrame
         \/ RemoveExecution(x) /\ ExecFrame
         \/ StreamConnect(x) /\ ConnectFrame
         \/ StreamRead(x) /\ ExecFrame
         \/ StreamEOF(x) /\ ExecFrame
         \/ StreamDisconnect(x) /\ ExecFrame

SpecHappy == Init /\ [][NextHappy]_vars /\ WF_vars(ProgressHappy)

FullStream ==
    <<ConnectedEvent>> \o [i \in 1..HappyLogs |-> LogEvent(i)]
                       \o <<CompleteEvent("SUCCESS")>>

\* C16: async happy path.  A stream opened before the execution completed
\* shows, when it ends, the connected event, one log event per printed line
\* in order, and one complete event with state SUCCESS.
AsyncHappyPath ==
    \A x \in ExecIds :
        (mode[x] = "async" /\ sse[x] = "eof" /\ ~atConnect[x].closed) =>
            stream[x] = FullStream

(***************************************************************************)
(* Parameters of an execute request (SpecParams): the body's "parameters"  *)
(* object is decoded by encoding/json into map[string]interface{},         *)
(* executeAction injects the execution id, trigger drops the keys that     *)
(* start with "_" and json.Marshal encodes the ExecutionRequest.           *)
(* Keys are sequences of characters.  A number is hi * 2^53 + lo: the     *)
(* decoder stores it as a float64, which holds every integer below 2^53   *)
(* and every second integer from 2^53 to 2^54.                            *)
(***************************************************************************)

\* Largest low part of a number a client sends.
MaxLo == 3

ExecutionIdKey ==
    <<"_", "e", "x", "e", "c", "u", "t", "i", "o", "n", "_", "i", "d">>

ParamKeys == {<<"d">>, <<"d", "_">>, <<"_", "d">>, ExecutionIdKey}

\* Values of uuid.New().String().
Uuids == {"u1", "u2"}

\* JSON values a client may send.
JsonString(v) == [t |-> "string", s |-> v, hi |-> 0, lo |-> 0]
JsonNumber(h, l) == [t |-> "number", s |-> "", hi |-> h, lo |-> l]
JsonNull == [t |-> "null", s |-> "", hi |-> 0, lo |-> 0]
JsonValues ==
    {JsonString("u1"), JsonString("x"), JsonNull}
        \cup {JsonNumber(h, l) : h \in {0, 1}, l \in 0..MaxLo}

\* Request bodies: an object over some of the keys.
Bodies == UNION {[K -> JsonValues] : K \in SUBSET ParamKeys}

\* strings.HasPrefix
HasPrefix(k, prefix) ==
    Len(k) >= Len(prefix) /\ SubSeq(k, 1, Len(prefix)) = prefix

\* Low part of the float64 nearest to h * 2^53 + l (ties to even).
RoundFloat64(h, l) ==
    IF h = 0 \/ l % 2 = 0 THEN l
    ELSE IF (l - 1) % 4 = 0 THEN l - 1 ELSE l + 1

\* json decoding of one value into interface{}.
DecodeValue(j) ==
    CASE j.t = "string" -> [g |-> "string", s |-> j.s, hi |-> 0, lo |-> 0]
      [] j.t = "number" ->
            [g |-> "float64", s |-> "", hi |-> j.hi, lo |-> RoundFloat64(j.hi, j.lo)]
      [] OTHER -> [g |-> "nil", s |-> "", hi |-> 0, lo |-> 0]

\* json.Marshal of one interface{} value: a float64 is written with the
\* digits of the value it holds.
MarshalValue(v) ==
    CASE v.g = "string" -> JsonString(v.s)
      [] v.g = "float64" -> JsonNumber(v.hi, v.lo)
      [] OTHER -> JsonNull

\* params after executeAction decoded body b and injected execution id u.
InjectedParams(b, u) ==
    [k \in DOMAIN b \cup {ExecutionIdKey} |->
        IF k = ExecutionIdKey
        THEN [g |-> "string", s |-> u, hi |-> 0, lo |-> 0]
        ELSE DecodeValue(b[k])]

\* executeAction: decode the body, generate the execution id, inject it and
\* answer with it; trigger runs later (go trigger, or the sync call).
ParamExecute ==
    /\ respId = ""
    /\ \E b \in Bodies : \E u \in Uuids :
          /\ reqBody' = b
          /\ respId' = u
          /\ params' = InjectedParams(b, u)
    /\ UNCHANGED executionRequest

\* trigger: take the execution id from parameters (or generate u), drop the
\* keys starting with "_", build the topics and publish the request.
ParamTrigger(u) ==
    /\ respId # ""
    /\ executionRequest = <<>>
    /\ LET execID == IF ExecutionIdKey \in DOMAIN params
                           /\ params[ExecutionIdKey].g = "string"
                      THEN params[ExecutionIdKey].s ELSE u
           actualParams == {k \in DOMAIN params : ~HasPrefix(k, <<"_">>)}
       IN executionRequest' =
              [execution_id |-> execID,
               parameters |-> [k \in actualParams |-> MarshalValue(params[k])],
               result_topic |-> <<"tinpot", "exec", execID, "result">>,
               log_topic |-> <<"tinpot", "exec", execID, "log">>]
    /\ UNCHANGED <<reqBody, params, respId>>

ParamFrame ==
    UNCHANGED <<execVars, workerVars, catalogVars, requestVars, reconnectVars, kwargs, outcome, dropLog, auxVars>>

NextParams ==
    \/ ParamExecute /\ ParamFrame
    \/ \E u \in Uuids : ParamTrigger(u) /\ ParamFrame

SpecParams == Init /\ [][NextParams]_vars

\* C17: reserved parameters.  The published request holds exactly the
\* client's entries whose key does not start with "_", each with the value
\* the client sent, and its execution id and both topics carry the id of
\* the HTTP response.
ReservedParameters ==
    executionRequest # <<>> =>
        /\ DOMAIN executionRequest.parameters =
               {k \in DOMAIN reqBody : ~HasPrefix(k, <<"_">>)}
        /\ \A k \in DOMAIN executionRequest.parameters :
               executionRequest.parameters[k] = reqBody[k]
        /\ executionRequest.execution_id = respId
        /\ executionRequest.result_topic[3] = respId
        /\ executionRequest.log_topic[3] = respId

\* C18: SSE ordering.  What a stream has written after the connected event
\* is an initial part of the events the handlers enqueued, in enqueue
\* order: no two events are swapped and none is written twice.
SseOrdering ==
    \A x \in ExecIds :
        sse[x] # "none" =>
            /\ Len(stream[x]) - 1 <= Len(enqueued[x])
            /\ Tail(stream[x]) = SubSeq(enqueued[x], 1, Len(stream[x]) - 1)

\* C18 witness: a stream has written two log events and the complete event.
SseOrderingWitness ==
    \E x \in ExecIds :
        /\ Len(stream[x]) >= 4
        /\ stream[x][2].type = "log" /\ stream[x][3].type = "log"
        /\ stream[x][Len(stream[x])].type = "complete"

\* C19: client disconnect is local.  The step in which a stream's client
\* goes away leaves the event queue open or closed as it was with its
\* events, the registry and the subscriptions unchanged, and the execution
\* still completes: its result is handled and the queue is closed then.
DisconnectIsLocal ==
    /\ [][\A x \in ExecIds :
            (sse[x] = "open" /\ sse'[x] = "gone") =>
                UNCHANGED <<EventChan, chanClosed, enqueued, executions, timer,
                            subs, acked, closing, terminated, finalStatus>>]_vars
    /\ \A x \in ExecIds :
          (sse[x] = "gone") ~>
              /\ chanClosed[x] /\ terminated[x]
              /\ \E i \in DOMAIN enqueued[x] :
                    enqueued[x][i] = CompleteEvent("SUCCESS")

\* C19 witness: the client left before reading anything but the connected
\* event; the execution completed and its events are still in the queue.
DisconnectIsLocalWitness ==
    \E x \in ExecIds :
        /\ sse[x] = "gone" /\ ~atConnect[x].closed /\ Len(stream[x]) = 1
        /\ chanClosed[x] /\ terminated[x]
        /\ EventChan[x] = enqueued[x] /\ Len(EventChan[x]) = HappyLogs + 1
        /\ EventChan[x][HappyLogs + 1] = CompleteEvent("SUCCESS")

\* A stream opened after the completion closed the queue, the execution
\* still being registered.
LateStream(x) == sse[x] # "none" /\ atConnect[x].closed

\* C20 as stated: a late stream ends having shown the connected event only.
LateSubscriber ==
    \A x \in ExecIds :
        (LateStream(x) /\ sse[x] = "eof") => stream[x] = <<ConnectedEvent>>

\* C20: late SSE subscriber.  A late stream shows the connected event, then
\* the events that were still in the closed queue when it was opened, in
\* queue order and nothing else, and then ends (unless its client leaves
\* first).
LateSubscriberDrains ==
    /\ [](\A x \in ExecIds :
            LateStream(x) =>
                /\ stream[x] \o EventChan[x] =
                       <<ConnectedEvent>> \o atConnect[x].buffered
                /\ sse[x] = "eof" => EventChan[x] = <<>>)
    /\ \A x \in ExecIds :
          (LateStream(x) /\ sse[x] = "open") ~> (sse[x] \in {"eof", "gone"})

\* C20 witness: a late stream ended after showing the log event and the
\* complete event nobody had read before.
LateSubscriberWitness ==
    \E x \in ExecIds :
        /\ LateStream(x) /\ sse[x] = "eof"
        /\ Len(stream[x]) = HappyLogs + 2
        /\ stream[x][Len(stream[x])] = CompleteEvent("SUCCESS")

\* C21: ExecutionState lifecycle.  An async submission registers its id; the
\* entry leaves the registry only by the removal the completion scheduled,
\* and not before the complete event has been enqueued; a stream is opened
\* only for a registered id (any other request is answered 404).
ExecutionStateLifecycle ==
    /\ [][\A x \in ExecIds :
            (mode[x] # "async" /\ mode'[x] = "async") => x \in executions']_vars
    /\ [][\A x \in ExecIds :
            (x \in executions /\ x \notin executions') =>
                timer[x] /\ CompleteCount(enqueued[x]) >= 1]_vars
    /\ [][\A x \in ExecIds :
            (sse[x] = "none" /\ sse'[x] # "none") => x \in executions]_vars

\* C22: drop-and-log backpressure.  The event queue never holds more than
\* its capacity; a log message handled while the queue is full is discarded,
\* the queue and the process are left as they were; and a log message at the
\* head of the dispatcher can always be handled, whatever the queue holds
\* and whether or not a stream is reading.
DropAndLog ==
    /\ [](\A x \in ExecIds : Len(EventChan[x]) <= QueueCap)
    /\ [][\A x \in ExecIds :
            (Len(logWire'[x]) < Len(logWire[x]) /\ "log" \in subs[x]
                 /\ Len(EventChan[x]) = QueueCap) =>
                /\ EventChan'[x] = EventChan[x]
                /\ enqueued'[x] = enqueued[x]
                /\ droppedLogs'[x] = droppedLogs[x] + 1
                /\ panicked' = panicked]_vars
    /\ [](\A x \in ExecIds :
            (Alive /\ ~DispatcherBusy /\ logWire[x] # <<>> /\ "log" \in subs[x])
                => ENABLED LogHandler(x))

\* C22 witness: a log was discarded on a full queue that no stream reads.
DropAndLogWitness ==
    \E x \in ExecIds :
        /\ droppedLogs[x] >= 1 /\ Len(EventChan[x]) = QueueCap
        /\ sse[x] = "none" /\ panicked = ""

(***************************************************************************)
(* Worker connections (SpecReconnect).  The worker's client reconnects by  *)
(* itself (SetAutoReconnect) with a clean session: the broker forgets the  *)
(* subscriptions of a lost connection and keeps the retained messages.     *)
(* Every connect event runs the OnConnectHandler.                          *)
(***************************************************************************)

\* Connect events of one worker.
MaxConnects == 2

\* Names of mgr.ListActions() of a worker.
LocalActions(w) == IF w = "w1" THEN {"a", "b"} ELSE {"b"}

\* The orders in which a range over the map of ListActions visits S.
Orders(S) ==
    {o \in [1..Cardinality(S) -> S] : \A n \in S : \E i \in DOMAIN o : o[i] = n}

\* A handler that announces and subscribes on the first connect only.
OnConnectHandlerFirstOnly(w) ==
    /\ WorkerConnect(w)
    /\ connects[w] < MaxConnects
    /\ connects' = [connects EXCEPT ![w] = @ + 1]
    /\ IF connects[w] = 0
       THEN /\ \E o \in Orders(LocalActions(w)) :
                 annWire' = annWire \o
                     [i \in DOMAIN o |-> [name |-> o[i], payload |-> AnnouncePayload(o[i])]]
            /\ annSent' = annSent + Cardinality(LocalActions(w))
            /\ retained' = [n \in Names |->
                   IF n \in LocalActions(w) THEN AnnouncePayload(n) ELSE retained[n]]
            /\ wSubs' = [wSubs EXCEPT ![w] =
                   {triggerTopicForAction(n) : n \in LocalActions(w)}]
       ELSE UNCHANGED <<annWire, annSent, retained, wSubs>>
    /\ UNCHANGED <<actions, lastDelivered, lastApplied, handled>>

\* OnConnectHandler: announceActions publishes a retained announcement for
\* every action of ListActions() and waits for each; subscribeToActions then
\* subscribes every trigger topic.
OnConnectHandler(w) ==
    /\ WorkerConnect(w)
    /\ connects[w] < MaxConnects
    /\ connects' = [connects EXCEPT ![w] = @ + 1]
    /\ \E o \in Orders(LocalActions(w)) :
         annWire' = annWire \o
             [i \in DOMAIN o |-> [name |-> o[i], payload |-> AnnouncePayload(o[i])]]
    /\ annSent' = annSent + Cardinality(LocalActions(w))
    /\ retained' = [n \in Names |->
           IF n \in LocalActions(w) THEN AnnouncePayload(n) ELSE retained[n]]
    /\ wSubs' = [wSubs EXCEPT ![w] =
           {triggerTopicForAction(n) : n \in LocalActions(w)}]
    /\ UNCHANGED <<actions, lastDelivered, lastApplied, handled>>

\* A worker with a last will: the broker publishes an empty payload for
\* each of its actions when the connection is lost.
ConnectionLostWithdraws(w) ==
    /\ wConnected[w]
    /\ wConnected' = [wConnected EXCEPT ![w] = FALSE]
    /\ wSubs' = [wSubs EXCEPT ![w] = {}]
    /\ \E o \in Orders(LocalActions(w)) :
         annWire' = annWire \o
             [i \in DOMAIN o |-> [name |-> o[i], payload |-> EmptyPayload]]
    /\ UNCHANGED <<trigSent, inbox, inv, gil, stdoutTarget, resultsPublished,
                   handledBy, connects, retained, actions, annSent,
                   lastDelivered, lastApplied, handled>>

\* The connection of a worker is lost (or the worker dies): no withdrawal is
\* published, the broker drops the subscriptions of the session.
ConnectionLost(w) ==
    /\ wConnected[w]
    /\ wConnected' = [wConnected EXCEPT ![w] = FALSE]
    /\ wSubs' = [wSubs EXCEPT ![w] = {}]
    /\ UNCHANGED <<trigSent, inbox, inv, gil, stdoutTarget, resultsPublished,
                   handledBy, connects, retained, catalogVars>>

\* Some client publishes an empty retained payload on tinpot/actions/{n}.
WithdrawAnnouncement(n) ==
    /\ PublishAnnouncement(n, EmptyPayload)
    /\ retained' = [retained EXCEPT ![n] = NoPayload]
    /\ UNCHANGED <<workerVars, connects, wSubs>>

ReconnectFrame == UNCHANGED <<execVars, requestVars, paramVars, kwargs, outcome, dropLog, auxVars>>

NextReconnect ==
    \/ \E w \in Workers : OnConnectHandler(w) /\ ReconnectFrame
    \/ \E w \in Workers : ConnectionLost(w) /\ ReconnectFrame
    \/ \E n \in Names : WithdrawAnnouncement(n) /\ ReconnectFrame
    \/ onActionAnnounced /\ ReconnectFrame /\ UNCHANGED <<workerVars, reconnectVars>>
    \/ \E n \in Names : \E sync \in BOOLEAN : ExecuteRequest(n, sync)

SpecReconnect == Init /\ [][NextReconnect]_vars

\* C23: worker reconnect.  Every connect event of a worker, the first and
\* each later one, runs the handler: an announcement of every local action
\* is published and retained and every local trigger topic is subscribed;
\* a connected worker holds the subscriptions of all its actions.
WorkerReconnect ==
    /\ [][\A w \in Workers :
            (~wConnected[w] /\ wConnected'[w]) =>
                /\ connects'[w] = connects[w] + 1
                /\ Len(annWire') = Len(annWire) + Cardinality(LocalActions(w))
                /\ \A n \in LocalActions(w) :
                      /\ retained'[n] = AnnouncePayload(n)
                      /\ triggerTopicForAction(n) \in wSubs'[w]
                      /\ \E i \in (Len(annWire) + 1)..Len(annWire') :
                            annWire'[i] = [name |-> n, payload |-> AnnouncePayload(n)]]_vars
    /\ [](\A w \in Workers :
            wConnected[w] =>
                wSubs[w] = {triggerTopicForAction(n) : n \in LocalActions(w)})

\* C23 witness: a worker is connected for the second time, after an action
\* of its own was withdrawn in between, and the catalog holds its actions.
WorkerReconnectWitness ==
    \E w \in Workers :
        /\ wConnected[w] /\ connects[w] >= 2 /\ annWire = <<>>
        /\ \E i \in DOMAIN handled :
              /\ handled[i].payload = EmptyPayload
              /\ handled[i].name \in LocalActions(w)
              /\ \E j \in DOMAIN handled : j > i /\ handled[j].name = handled[i].name
        /\ LocalActions(w) \subseteq DOMAIN actions

(***************************************************************************)
(* Argument marshalling in the worker (SpecMarshal): a parameter of the    *)
(* ExecutionRequest is decoded by encoding/json into interface{} and       *)
(* turned into a Python object by the type switch of trigger.  A number is *)
(* written as twice its value, so that halves can be told from integers.   *)
(***************************************************************************)

\* Largest doubled number, longest array.
MaxTwice == 3
MaxArray == 2

\* JSON values of a parameter: scalars, arrays and objects of scalars, and
\* arrays holding one array or object.
WireValues ==
    LET Scalars == {[t |-> "string", s |-> "x"], [t |-> "string", s |-> ""],
                    [t |-> "bool", b |-> TRUE], [t |-> "bool", b |-> FALSE],
                    [t |-> "null"]}
                     \cup {[t |-> "number", twice |-> k] : k \in 0..MaxTwice}
        Arrays == {[t |-> "array", items |-> a] :
                      a \in UNION {[1..l -> Scalars] : l \in 0..MaxArray}}
        Objects == {[t |-> "object", items |-> o] :
                       o \in UNION {[K -> Scalars] : K \in SUBSET {"k"}}}
        Nested == {[t |-> "array", items |-> <<v>>] :
                      v \in {a \in Arrays : Len(a.items) <= 1} \cup Objects}
    IN Scalars \cup Arrays \cup Objects \cup Nested

\* json.Unmarshal into interface{}: string, float64, bool, nil,
\* []interface{} or map[string]interface{}.
RECURSIVE GoValueOf(_)
GoValueOf(j) ==
    CASE j.t = "string" -> [g |-> "string", s |-> j.s]
      [] j.t = "number" -> [g |-> "float64", twice |-> j.twice]
      [] j.t = "bool" -> [g |-> "bool", b |-> j.b]
      [] j.t = "null" -> [g |-> "nil"]
      [] j.t = "array" ->
            [g |-> "slice", items |-> [i \in DOMAIN j.items |-> GoValueOf(j.items[i])]]
      [] j.t = "object" ->
            [g |-> "map", items |-> [k \in DOMAIN j.items |-> GoValueOf(j.items[k])]]

\* The type switch of trigger: string, float64 (an int if it equals its
\* integer part, a float otherwise), bool; anything else becomes the string
\* fmt.Sprintf("%v", val).
ToPython(v) ==
    CASE v.g = "string" -> [py |-> "str", s |-> v.s]
      [] v.g = "float64" ->
            IF v.twice % 2 = 0 THEN [py |-> "int", n |-> v.twice \div 2]
            ELSE [py |-> "float", twice |-> v.twice]
      [] v.g = "bool" -> [py |-> "bool", b |-> v.b]
      [] OTHER -> [py |-> "str", sprintf |-> v]

\* trigger builds the keyword argument of one parameter.
MarshalArgument ==
    /\ kwargs = <<>>
    /\ \E j \in WireValues : kwargs' = [wire |-> j, value |-> ToPython(GoValueOf(j))]

NextMarshal ==
    MarshalArgument
        /\ UNCHANGED <<execVars, workerVars, catalogVars, requestVars, paramVars,
                       reconnectVars, outcome, dropLog, auxVars>>

SpecMarshal == Init /\ [][NextMarshal]_vars

\* C24: parameter marshalling round-trip.  The Python value built for a
\* parameter is a str for a string, an int for an integer-valued number, a
\* float for another number, a bool for a bool, None for null, a list for an
\* array and a dict for an object, element by element.
MarshallingRoundTrip ==
    LET RECURSIVE Native(_)
        Native(j) ==
            CASE j.t = "string" -> [py |-> "str", s |-> j.s]
              [] j.t = "number" ->
                    IF j.twice % 2 = 0 THEN [py |-> "int", n |-> j.twice \div 2]
                    ELSE [py |-> "float", twice |-> j.twice]
              [] j.t = "bool" -> [py |-> "bool", b |-> j.b]
              [] j.t = "null" -> [py |-> "None"]
              [] j.t = "array" ->
                    [py |-> "list", items |-> [i \in DOMAIN j.items |-> Native(j.items[i])]]
              [] j.t = "object" ->
                    [py |-> "dict", items |-> [k \in DOMAIN j.items |-> Native(j.items[k])]]
    IN kwargs # <<>> => kwargs.value = Native(kwargs.wire)

(***************************************************************************)
(* The outcome of one execution (SpecOutcome): what trigger makes of the   *)
(* call, the ResultResponse executeAction publishes for it, and what the   *)
(* coordinator reports when it handles that ResultResponse.                *)
(***************************************************************************)

Nil == [g |-> "nil"]

\* Values a callable returns: the JSON-serialisable ones (None is null) and
\* one json.dumps cannot serialise.
PyResults == WireValues \cup {[t |-> "undumpable"]}

\* A trigger that reports no error for a raised exception.
TriggerOutcomeSilent(raised, ret) == [error |-> "", result |-> Nil]

\* trigger, result handling: errMsg and result handed to response.  A raised
\* exception gives "Exception occurred"; a returned object is passed through
\* json.dumps and decoded into a map (None, and what does not decode into a
\* map, leave result nil); what json.dumps rejects is wrapped as a string.
TriggerOutcome(raised, ret) ==
    IF raised THEN [error |-> "Exception occurred", result |-> Nil]
    ELSE [error |-> "",
          result |-> CASE ret.t = "object" -> GoValueOf(ret)
                       [] ret.t = "undumpable" ->
                             [g |-> "map",
                              items |-> [k \in {"result"} |-> [g |-> "string", s |-> "str"]]]
                       [] OTHER -> Nil]

\* executeAction.responseCallback and sendResult of the worker.
ResultResponseOf(o) ==
    [status |-> IF o.error # "" THEN "FAILURE" ELSE "SUCCESS",
     result |-> o.result,
     error |-> o.error]

\* handleResponse: the arguments it calls the response callback with.
HandleResponseArgs(res) ==
    IF res.status = "SUCCESS"
    THEN [err |-> "",
          res |-> IF res.result.g = "map" THEN res.result
                  ELSE [g |-> "map", items |-> [k \in {"value"} |-> res.result]]]
    ELSE [err |-> res.error, res |-> Nil]

\* What the coordinator's callback makes of (err, res): the data of the
\* complete event (async) or the HTTP answer of the sync branch.
ReportOf(sync, a) ==
    IF sync
    THEN [http |-> 200,
          status |-> IF a.err # "" THEN "FAILURE" ELSE "SUCCESS",
          result |-> a.res]
    ELSE [type |-> "complete",
          data |-> IF a.err = ""
                   THEN [state |-> "SUCCESS", successful |-> TRUE, result |-> a.res]
                   ELSE [state |-> "FAILURE", successful |-> FALSE, error |-> a.err]]

\* The worker runs the callable of a sync or async execution and publishes
\* the ResultResponse.
WorkerRespond ==
    /\ outcome = <<>>
    /\ \E sync \in BOOLEAN : \E raised \in BOOLEAN : \E ret \in PyResults :
          outcome' = [sync |-> sync, raised |-> raised,
                      returned |-> IF raised THEN <<>> ELSE <<ret>>,
                      response |-> ResultResponseOf(TriggerOutcome(raised, ret)),
                      report |-> <<>>]

\* The coordinator handles the ResultResponse.
CoordinatorReport ==
    /\ outcome # <<>>
    /\ outcome.report = <<>>
    /\ outcome' = [outcome EXCEPT
           !.report = ReportOf(outcome.sync, HandleResponseArgs(outcome.response))]

\* MqttResultResponse values that json.Unmarshal accepts, whoever published
\* them: the status and the error are strings, a missing error is "".
ResultResponses ==
    [status : {"SUCCESS", "FAILURE"}, result : {Nil}, error : {"", "boom"}]

\* A ResultResponse arrives on the result topic of a sync or async execution
\* from a publisher other than the worker above.
ReceiveResultResponse ==
    /\ outcome = <<>>
    /\ \E sync \in BOOLEAN : \E res \in ResultResponses :
          outcome' = [sync |-> sync, raised |-> FALSE, returned |-> <<>>,
                      response |-> res, report |-> <<>>]

OutcomeFrame ==
    UNCHANGED <<execVars, workerVars, catalogVars, requestVars, paramVars,
                reconnectVars, kwargs, dropLog, auxVars>>

NextOutcome ==
    \/ WorkerRespond /\ OutcomeFrame
    \/ ReceiveResultResponse /\ OutcomeFrame
    \/ CoordinatorReport /\ OutcomeFrame

SpecOutcome == Init /\ [][NextOutcome]_vars

\* C25: action failures are execution outcomes.  When the callable raised,
\* the ResultResponse has status FAILURE and a non-empty error; the complete
\* event of an async execution then has state FAILURE, successful false and
\* a non-empty error, and a sync request is answered 200 with status FAILURE.
FailureIsOutcome ==
    (outcome # <<>> /\ outcome.raised) =>
        /\ outcome.response.status = "FAILURE"
        /\ outcome.response.error # ""
        /\ outcome.report # <<>> =>
              IF outcome.sync
              THEN outcome.report.http = 200 /\ outcome.report.status = "FAILURE"
              ELSE /\ outcome.report.type = "complete"
                   /\ outcome.report.data.state = "FAILURE"
                   /\ outcome.report.data.successful = FALSE
                   /\ outcome.report.data.error # ""

\* C25 witness: the failure of a raising callable was reported on the stream
\* of an async execution.
FailureIsOutcomeWitness ==
    /\ outcome # <<>> /\ outcome.raised /\ ~outcome.sync
    /\ outcome.report # <<>> /\ outcome.report.data.state = "FAILURE"

\* C26: broker errors on dispatch.  An execute or sync_execute request whose
\* ExecutionRequest could not be published is answered with HTTP 500.
BrokerErrorIs500 ==
    \A x \in ExecIds :
        (pc[x] = "failed" /\ httpStatus[x] # 0) => httpStatus[x] = 500

\* C27: malformed trigger.  The step in which a running worker takes a trigger
\* payload that does not decode starts no invocation, leaves the interpreter
\* and the output capture alone and publishes nothing: it only logs.
MalformedTriggerDropped ==
    [][\A w \in Workers :
          (MalformedTrigger \in inbox[w] /\ MalformedTrigger \notin inbox'[w]
               /\ wConnected'[w]) =>
              /\ UNCHANGED <<inv, gil, stdoutTarget, resultsPublished, handledBy>>
              /\ dropLog'[w] = dropLog[w] + 1]_vars

\* C27 witness: a worker dropped a malformed trigger and completed a valid
\* one.
MalformedTriggerDroppedWitness ==
    \E w \in Workers :
        /\ dropLog[w] >= 1
        /\ \E x \in TrigIds : inv[w][x] = "done" /\ resultsPublished[x] >= 1

\* C28: panic containment.  The step in which trigger panics for x publishes
\* one ResultResponse for x, and the worker stays connected with the
\* messages and invocations it held.
PanicContainment ==
    [][\A w \in Workers : \A x \in TrigIds :
          (inv[w][x] # "panicked" /\ inv'[w][x] = "panicked") =>
              /\ resultsPublished'[x] = resultsPublished[x] + 1
              /\ wConnected'[w] = wConnected[w]
              /\ inbox'[w] = inbox[w]
              /\ \A y \in TrigIds \ {x} : inv'[w][y] = inv[w][y]]_vars

\* The catalog with messages of any topic shape: the handler is also given
\* messages whose topic has a fourth level.
NextProtocol ==
    \/ \E n \in Names \cup {OffTopic} : \E p \in Payloads("a") :
         PublishAnnouncement(n, p) /\ CatalogFrame
    \/ onActionAnnounced /\ CatalogFrame

SpecProtocol == Init /\ [][NextProtocol]_vars

\* C29: protocol errors never change the catalog.  Handling a message whose
\* topic does not have three parts, or whose payload is not empty and does
\* not decode, leaves every entry of the catalog as it was.
ProtocolErrorsDropped ==
    [][(handled' # handled
          /\ \/ Len(TopicParts(Head(annWire).name)) # 3
             \/ Head(annWire).payload.kind = "garbage") =>
            /\ actions' = actions
            /\ ListActions' = ListActions]_vars

\* C29 witness: a payload that does not decode was handled for a name that
\* is in the catalog, and a message of another topic shape was handled.
ProtocolErrorsDroppedWitness ==
    /\ \E i \in DOMAIN handled :
          /\ handled[i].payload.kind = "garbage"
          /\ handled[i].name \in DOMAIN actions
          /\ \E k \in 1..(i - 1) :
                handled[k].name = handled[i].name /\ handled[k].payload.kind = "json"
    /\ \E j \in DOMAIN handled : handled[j].name = OffTopic

\* C30: no worker-loss detection.  A name leaves the catalog only in the
\* step that handles an empty payload on its topic; losing the connection of
\* a worker publishes nothing and leaves the catalog and the retained
\* announcements as they were; a request is answered 404 only for a name
\* that is not in the catalog, and a request for a name of the catalog can
\* be accepted whatever the state of the workers.
NoWorkerLossDetection ==
    /\ [][\A n \in Names :
            (n \in DOMAIN actions /\ n \notin DOMAIN actions') =>
                /\ handled' # handled
                /\ Head(annWire) = [name |-> n, payload |-> EmptyPayload]]_vars
    /\ [][\A w \in Workers :
            (wConnected[w] /\ ~wConnected'[w]) =>
                UNCHANGED <<actions, annWire, retained>>]_vars
    /\ [][rejected' # rejected =>
            rejected'[Len(rejected')].name \notin DOMAIN actions]_vars
    /\ [](\A n \in DOMAIN actions : \A x \in ExecIds :
            (Alive /\ mode[x] = "none" /\ reqName[x] = "") =>
                ENABLED (ExecuteRequest(n, FALSE) /\ reqName'[x] = n))

\* C30 witness: every worker has lost its connection, the announcements are
\* all handled, and a request for an action of a lost worker was accepted.
NoWorkerLossDetectionWitness ==
    /\ \A w \in Workers : ~wConnected[w]
    /\ annWire = <<>>
    /\ \E w \in Workers : \E x \in ExecIds :
          /\ connects[w] >= 1
          /\ reqName[x] \in LocalActions(w) /\ reqName[x] \in DOMAIN actions
          /\ mode[x] # "none"

(***************************************************************************)
(* Log capture in the worker (SpecCapture).  setupLogCapture makes a pipe,  *)
(* points the interpreter's sys.stdout and sys.stderr at its write end and  *)
(* starts a goroutine that reads the other end and calls the logs callback  *)
(* (a publication on the log topic of the request) for each line.  Nothing  *)
(* waits for that goroutine: trigger calls response and closes the write    *)
(* end when the call has returned.  A line in a pipe is tagged with the     *)
(* invocation whose callable wrote it.                                      *)
(***************************************************************************)

\* Lines one callable writes, the traceback of PyErr_Print included.
MaxLines == 2

\* A deployment of one worker process.
SoleWorker == {"w1"}

\* A trigger that never closes the pipe.
WriterNeverClosed(w, x) == inv[w][x] \in {"captured", "calling", "yielded", "done"}

\* The write end of the pipe of invocation x is open: from os.Pipe() in
\* setupLogCapture to the deferred w.Close() of trigger.
WriterOpen(w, x) == inv[w][x] \in {"captured", "calling", "yielded"}

\* setupLogCapture, with the go func() at its end.
StartReader(w, x) ==
    /\ SetupLogCapture(w, x)
    /\ reader' = [reader EXCEPT ![w][x] = "running"]
    /\ UNCHANGED <<pipe, logPub, written>>

\* The callable prints a line, or PyErr_Print prints the traceback: the
\* line goes to the pipe sys.stdout points at, and nowhere if the write end
\* of that pipe is closed.
PyWrite(w, x) ==
    /\ inv[w][x] = "calling"
    /\ written[w][x] < MaxLines
    /\ written' = [written EXCEPT ![w][x] = @ + 1]
    /\ pipe' = IF WriterOpen(w, stdoutTarget[w])
               THEN [pipe EXCEPT ![w][stdoutTarget[w]] = Append(@, x)]
               ELSE pipe
    /\ UNCHANGED <<reader, logPub, workerVars>>

\* The reader of invocation x reads a line and calls the logs callback of
\* x: executeAction's logsCallback publishes it on req.LogTopic.
ReaderRead(w, x) ==
    /\ reader[w][x] = "running"
    /\ pipe[w][x] # <<>>
    /\ logPub' = logPub \cup {[topic |-> x, writer |-> Head(pipe[w][x])]}
    /\ pipe' = [pipe EXCEPT ![w][x] = Tail(@)]
    /\ UNCHANGED <<reader, written, workerVars>>

\* r.Read returns io.EOF: the pipe is empty and its write end closed.
ReaderEOF(w, x) ==
    /\ reader[w][x] = "running"
    /\ pipe[w][x] = <<>>
    /\ inv[w][x] # "none" /\ ~WriterOpen(w, x)
    /\ reader' = [reader EXCEPT ![w][x] = "exited"]
    /\ UNCHANGED <<pipe, logPub, written, workerVars>>

\* The process ends on a panic: its reader goroutines and pipes end with it.
CapturePanics(w, x) ==
    /\ TriggerPanics(w, x)
    /\ reader' = [reader EXCEPT ![w] =
           [y \in TrigIds |-> IF reader[w][y] = "running" THEN "killed" ELSE reader[w][y]]]
    /\ pipe' = [pipe EXCEPT ![w] = [y \in TrigIds |-> <<>>]]
    /\ UNCHANGED <<logPub, written>>

\* The steps of the capture leave the rest alone.
CaptureFrame == UNCHANGED <<execVars, catalogVars, requestVars, paramVars,
                   reconnectVars, kwargs, outcome, dropLog, readerIO,
                   connecting, clients>>

\* The reader goroutines run when they can.
ReaderProgress ==
    \E w \in SoleWorker, x \in TrigIds :
        (ReaderRead(w, x) \/ ReaderEOF(w, x)) /\ CaptureFrame

NextCapture ==
    \/ \E w \in SoleWorker : WorkerConnect(w) /\ WorkerFrame
    \/ \E x \in TrigIds : PublishTrigger(x) /\ WorkerFrame
    \/ \E w \in SoleWorker, x \in TrigIds :
         \/ ExecuteActionStart(w, x) /\ WorkerFrame
         \/ StartReader(w, x) /\ CaptureFrame
         \/ EnterCall(w, x) /\ WorkerFrame
         \/ PyYield(w, x) /\ WorkerFrame
         \/ PyResume(w, x) /\ WorkerFrame
         \/ PyWrite(w, x) /\ CaptureFrame
         \/ CallReturn(w, x) /\ WorkerFrame
         \/ ReaderRead(w, x) /\ CaptureFrame
         \/ ReaderEOF(w, x) /\ CaptureFrame
         \/ CapturePanics(w, x) /\ CaptureFrame

SpecCapture == Init /\ [][NextCapture]_vars /\ WF_vars(ReaderProgress)

\* C31: logs before result on the wire.  When trigger has returned and the
\* ResultResponse of an invocation is published, no line its callable wrote
\* is still in a pipe, waiting to be published.
LogsBeforeResult ==
    \A w \in Workers : \A x \in TrigIds :
        inv[w][x] = "done" =>
            \A y \in TrigIds : \A i \in 1..Len(pipe[w][y]) : pipe[w][y][i] # x

\* C32: capture reader termination.  Once an invocation has returned, the
\* reader goroutine started for it exits; a reader ends only at the end of
\* its file or with the process.
CaptureReaderTerminates ==
    /\ \A w \in Workers : \A x \in TrigIds :
          (inv[w][x] = "done") ~> (reader[w][x] # "running")
    /\ [](\A w \in Workers : \A x \in TrigIds :
            reader[w][x] = "exited" => pipe[w][x] = <<>> /\ ~WriterOpen(w, x))

\* C32 witness: two invocations of one worker have returned, both wrote a
\* line, and both readers have exited.
CaptureReaderTerminatesWitness ==
    \E w \in Workers :
        \A x \in TrigIds :
            inv[w][x] = "done" /\ reader[w][x] = "exited" /\ written[w][x] >= 1

\* C35: log attribution.  Every LogEntry published on the log topic of an
\* execution was written by the callable of that execution.
LogAttribution ==
    \A e \in logPub : e.topic = e.writer

(***************************************************************************)
(* The reader goroutine at byte level (SpecSplit).  The callable writes     *)
(* lines, each ended by a newline; r.Read hands over what the pipe holds   *)
(* when it runs, at most the size of the buffer, and each chunk is split at *)
(* the newlines on its own.  BufSize stands for the 1024 bytes of the       *)
(* buffer.                                                                  *)
(***************************************************************************)

BufSize == 2
MaxLineLen == 2
MaxWritten == 2

\* What a callable may write: up to MaxWritten lines of letters and spaces.
WrittenLines ==
    LET Line == UNION {[1..n -> {"a", " "}] : n \in 0..MaxLineLen}
    IN UNION {[1..n -> Line] : n \in 0..MaxWritten}

\* The bytes of the lines, each followed by its newline.
RECURSIVE FlattenLines(_)
FlattenLines(ls) ==
    IF ls = <<>> THEN <<>>
    ELSE Head(ls) \o <<"\n">> \o FlattenLines(Tail(ls))

\* strings.Split(chunk, "\n"): the pieces between the newlines; one more
\* piece than there are newlines.
RECURSIVE SplitNewline(_)
SplitNewline(chunk) ==
    IF \A i \in 1..Len(chunk) : chunk[i] # "\n" THEN <<chunk>>
    ELSE LET k == CHOOSE i \in 1..Len(chunk) :
                      chunk[i] = "\n" /\ \A j \in 1..(i - 1) : chunk[j] # "\n"
         IN <<SubSeq(chunk, 1, k - 1)>> \o SplitNewline(SubSeq(chunk, k + 1, Len(chunk)))

\* The callback calls the reader makes for one chunk: one per piece that
\* strings.TrimSpace does not reduce to "".
OnLogCalls(chunk) ==
    LET Blank(p) == \A i \in 1..Len(p) : p[i] = " "
    IN SelectSeq(SplitNewline(chunk), LAMBDA p : ~Blank(p))

\* The callable is called: the lines it is going to print.
CallableStarts ==
    /\ readerIO = <<>>
    /\ \E ls \in WrittenLines :
          readerIO' = [wrote |-> ls, towrite |-> ls, unread |-> <<>>, logs |-> <<>>]

\* The callable prints its next line: sys.stdout is line buffered, the line
\* and its newline reach the pipe in one write.
CallableWrites ==
    /\ readerIO # <<>>
    /\ readerIO.towrite # <<>>
    /\ readerIO' = [readerIO EXCEPT
           !.towrite = Tail(@),
           !.unread = @ \o FlattenLines(<<Head(readerIO.towrite)>>)]

\* n, err := r.Read(buf): the bytes the pipe holds, at most BufSize; then
\* the loop over strings.Split(string(buf[:n]), "\n").
ReaderReadChunk ==
    /\ readerIO # <<>>
    /\ readerIO.unread # <<>>
    /\ LET n == IF Len(readerIO.unread) < BufSize
                THEN Len(readerIO.unread) ELSE BufSize
       IN readerIO' = [readerIO EXCEPT
              !.unread = SubSeq(@, n + 1, Len(@)),
              !.logs = @ \o OnLogCalls(SubSeq(readerIO.unread, 1, n))]

\* The steps of the pipe leave the rest alone.
SplitFrame ==
    UNCHANGED <<execVars, workerVars, catalogVars, requestVars, paramVars,
                reconnectVars, kwargs, outcome, dropLog, captureVars,
                connecting, clients>>

NextSplit ==
    \/ CallableStarts /\ SplitFrame
    \/ CallableWrites /\ SplitFrame
    \/ ReaderReadChunk /\ SplitFrame

SpecSplit == Init /\ [][NextSplit]_vars

\* C33: one log entry per line.  When the reader has read all the lines,
\* the callback was called once per line that is not blank, with the whole
\* line, in the order written, however the reads cut the bytes.
OneLogEntryPerLine ==
    (readerIO # <<>> /\ readerIO.towrite = <<>> /\ readerIO.unread = <<>>) =>
        readerIO.logs =
            SelectSeq(readerIO.wrote,
                      LAMBDA l : \E i \in 1..Len(l) : l[i] # " ")

\* C34: a malformed result does not lose the execution.  Handling a result
\* message that does not decode changes nothing of the completion; while an
\* execution whose request was published has not completed, the coordinator
\* is subscribed to its result topic between two handler runs; and no valid
\* ResultResponse is discarded for an execution that has not completed.
MalformedResultKeepsExecution ==
    /\ [][\A x \in ExecIds :
            (resWire[x] # <<>> /\ Head(resWire[x]) = "undecodable"
                /\ closing'[x] = closing[x] + 1) =>
                UNCHANGED <<EventChan, chanClosed, enqueued, wg, finalStatus>>]_vars
    /\ [](\A x \in ExecIds :
            (Alive /\ published[x] /\ closing[x] = 0 /\ ~Completed(x)) =>
                "result" \in subs[x])
    /\ [][\A x \in ExecIds :
            (unrouted'[x].result = unrouted[x].result + 1
                /\ Head(resWire[x]) # "undecodable") => Completed(x)]_vars

(***************************************************************************)
(* The OnConnectHandler step by step (SpecWindow): announceActions has       *)
(* returned when every announcement is acknowledged by the broker, and only *)
(* then subscribeToActions sends the subscribe requests.  In between, the   *)
(* broker delivers the announcements and routes trigger messages.           *)
(***************************************************************************)

\* announceActions(mgr, c): a retained announcement per action, each waited
\* for.
AnnounceActions(w) ==
    /\ ~wConnected[w] /\ ~connecting[w]
    /\ connects[w] < MaxConnects
    /\ connects' = [connects EXCEPT ![w] = @ + 1]
    /\ connecting' = [connecting EXCEPT ![w] = TRUE]
    /\ \E o \in Orders(LocalActions(w)) :
         annWire' = annWire \o
             [i \in DOMAIN o |-> [name |-> o[i], payload |-> AnnouncePayload(o[i])]]
    /\ annSent' = annSent + Cardinality(LocalActions(w))
    /\ retained' = [n \in Names |->
           IF n \in LocalActions(w) THEN AnnouncePayload(n) ELSE retained[n]]
    /\ UNCHANGED <<workerVars, wSubs, actions, lastDelivered, lastApplied, handled>>

\* subscribeToActions(mgr, c): the trigger topic of every action.
SubscribeToActions(w) ==
    /\ connecting[w]
    /\ connecting' = [connecting EXCEPT ![w] = FALSE]
    /\ WorkerConnect(w)
    /\ wSubs' = [wSubs EXCEPT ![w] =
           {triggerTopicForAction(n) : n \in LocalActions(w)}]
    /\ UNCHANGED <<connects, retained, catalogVars>>

\* The coordinator finds action n in its catalog and publishes the
\* ExecutionRequest x on the trigger topic of n; the broker hands it to the
\* clients subscribed to that topic, and to nobody else.
DispatchTrigger(n, x) ==
    /\ n \in DOMAIN actions
    /\ x \notin trigSent
    /\ trigSent' = trigSent \cup {x}
    /\ inbox' = [w \in Workers |->
           IF triggerTopicForAction(n) \in wSubs[w] THEN inbox[w] \cup {x} ELSE inbox[w]]
    /\ UNCHANGED <<wConnected, inv, gil, stdoutTarget, resultsPublished,
                   handledBy, reconnectVars, catalogVars>>

\* The steps of the handler leave the rest alone.
WindowFrame ==
    UNCHANGED <<execVars, requestVars, paramVars, kwargs, outcome, dropLog,
                captureVars, readerIO, clients>>

NextWindow ==
    \/ \E w \in SoleWorker : AnnounceActions(w) /\ WindowFrame
    \/ \E w \in SoleWorker : SubscribeToActions(w) /\ WindowFrame
    \/ \E w \in SoleWorker : ConnectionLost(w) /\ WindowFrame /\ UNCHANGED connecting
    \/ onActionAnnounced /\ WindowFrame
          /\ UNCHANGED <<workerVars, reconnectVars, connecting>>
    \/ \E n \in Names, x \in TrigIds :
          DispatchTrigger(n, x) /\ WindowFrame /\ UNCHANGED connecting

SpecWindow == Init /\ [][NextWindow]_vars

\* C36: no trigger is lost to the announce/subscribe window.  While a worker
\* that has announced is connected, its subscription to the trigger topic of
\* each of its actions that is in the catalog is active, and an
\* ExecutionRequest published for such an action reaches the worker.
NoTriggerLostToWindow ==
    /\ [](\A w \in Workers : \A n \in LocalActions(w) :
            ((connecting[w] \/ wConnected[w]) /\ n \in DOMAIN actions) =>
                triggerTopicForAction(n) \in wSubs[w])
    /\ [][\A w \in Workers : \A n \in LocalActions(w) : \A x \in TrigIds :
            ((connecting[w] \/ wConnected[w]) /\ DispatchTrigger(n, x)) =>
                x \in inbox'[w]]_vars

(***************************************************************************)
(* Several clients on the stream of one execution (SpecStreams).  Each      *)
(* GET /api/executions/{id}/stream runs its own streamLogs on the one       *)
(* EventChan of the ExecutionState: a receive takes the event out of the    *)
(* channel, so it reaches the one goroutine that received it.               *)
(***************************************************************************)

\* streamLogs of client c: the execution is registered; write "connected".
ClientConnect(c, x) ==
    /\ Alive
    /\ x \in executions
    /\ clients[c].state = "none"
    /\ clients' = [clients EXCEPT ![c] = [state |-> "open", events |-> <<ConnectedEvent>>]]
    /\ UNCHANGED EventChan

\* A stream that copies the next event and leaves it in the queue for the
\* other streams.
ClientReadBroadcast(c, x) ==
    /\ Alive
    /\ clients[c].state = "open"
    /\ EventChan[x] # <<>>
    /\ \A i \in 1..Len(clients[c].events) : clients[c].events[i] # Head(EventChan[x])
    /\ clients' = [clients EXCEPT ![c].events = Append(@, Head(EventChan[x]))]
    /\ UNCHANGED EventChan

\* streamLogs of client c receives one event from EventChan and writes it.
ClientRead(c, x) ==
    /\ Alive
    /\ clients[c].state = "open"
    /\ EventChan[x] # <<>>
    /\ clients' = [clients EXCEPT ![c].events = Append(@, Head(EventChan[x]))]
    /\ EventChan' = [EventChan EXCEPT ![x] = Tail(@)]

\* streamLogs of client c: the channel is closed and empty; return.
ClientEOF(c, x) ==
    /\ Alive
    /\ clients[c].state = "open"
    /\ EventChan[x] = <<>>
    /\ chanClosed[x]
    /\ clients' = [clients EXCEPT ![c].state = "eof"]
    /\ UNCHANGED EventChan

\* streamLogs of client c: the request context is done; return.
ClientDisconnect(c, x) ==
    /\ Alive
    /\ clients[c].state = "open"
    /\ clients' = [clients EXCEPT ![c].state = "gone"]
    /\ UNCHANGED EventChan

\* streamLogs touches the channel and its own response, nothing else.
ClientFrame ==
    UNCHANGED <<mode, pc, subs, acked, subFailed, published, logsSent, resSent,
                logWire, resWire, closing, terminated, executions, chanClosed,
                enqueued, droppedLogs, timer, wg, finalStatus, httpStatus, sse,
                stream, panicked, unrouted, workerVars, catalogVars,
                requestVars, paramVars, reconnectVars, kwargs, outcome,
                dropLog, captureVars, readerIO, connecting>>

\* The goroutines of the streams run when they can.
ClientProgress ==
    \E c \in Clients, x \in ExecIds :
        (ClientRead(c, x) \/ ClientEOF(c, x)) /\ ClientFrame

NextStreams ==
    \E x \in ExecIds :
        \/ ExecuteAsync(x) /\ ExecFrame
        \/ TriggerSubscribe(x) /\ ExecFrame
        \/ \E t \in Topics : BrokerSubAck(x, t) /\ ExecFrame
        \/ TriggerSubWait(x) /\ ExecFrame
        \/ TriggerPublish(x) /\ ExecFrame
        \/ TriggerPublishFail(x) /\ ExecFrame
        \/ WorkerPublishLog(x) /\ ExecFrame
        \/ \E p \in ResultPayloads : WorkerPublishResult(x, p) /\ ExecFrame
        \/ LogHandler(x) /\ ExecFrame
        \/ ResultHandler(x) /\ ExecFrame
        \/ ResultHandlerClose(x) /\ ExecFrame
        \/ \E t \in Topics : DiscardUnrouted(x, t) /\ OtherFrame
        \/ RemoveExecution(x) /\ ExecFrame
        \/ \E c \in Clients :
             \/ ClientConnect(c, x) /\ ClientFrame
             \/ ClientRead(c, x) /\ ClientFrame
             \/ ClientEOF(c, x) /\ ClientFrame
             \/ ClientDisconnect(c, x) /\ ClientFrame

SpecStreams == Init /\ [][NextStreams]_vars /\ WF_vars(ClientProgress)

\* C37: competing SSE readers.  The events the streams have written and the
\* events still in the queue are, together, the events that were enqueued,
\* and no event is in two of these places; a stream that is open when the
\* queue is closed and empty ends.
CompetingReaders ==
    /\ [](\A x \in ExecIds :
            LET Got(c) == {clients[c].events[i] : i \in 2..Len(clients[c].events)}
                Queued == {EventChan[x][i] : i \in 1..Len(EventChan[x])}
                Sent == {enqueued[x][i] : i \in 1..Len(enqueued[x])}
            IN /\ Queued \cup UNION {Got(c) : c \in Clients} = Sent
               /\ \A c \in Clients : Got(c) \cap Queued = {}
               /\ \A c, d \in Clients : c # d => Got(c) \cap Got(d) = {}
               /\ Len(EventChan[x]) + Len(clients["c1"].events)
                     + Len(clients["c2"].events)
                     = Len(enqueued[x])
                        + Cardinality({c \in Clients : clients[c].state # "none"}))
    /\ \A c \in Clients : \A x \in ExecIds :
          (Alive /\ clients[c].state = "open" /\ chanClosed[x] /\ EventChan[x] = <<>>)
              ~> (clients[c].state # "open")

\* C37 witness: both clients streamed at the same time, each wrote an event
\* of the execution, and both streams ended at the end of the queue.
CompetingReadersWitness ==
    /\ \A c \in Clients : clients[c].state = "eof" /\ Len(clients[c].events) >= 2
    /\ \E x \in ExecIds : Len(enqueued[x]) >= 3

\* C38: executions without a result are never reclaimed.  An async
\* execution whose request was published and for which no ResultResponse
\* has been delivered (none is waiting and the queue is still open) is
\* registered and holds its subscriptions to the log and the result topic;
\* an entry leaves the registry only by the timer the completion callback
\* started.
NeverReclaimed ==
    /\ [](\A x \in ExecIds :
            (/\ Alive /\ mode[x] = "async" /\ published[x] /\ ~chanClosed[x]
             /\ \A i \in 1..Len(resWire[x]) : resWire[x][i] = "undecodable") =>
                x \in executions /\ subs[x] = {"log", "result"})
    /\ [][\A x \in ExecIds :
            (x \in executions /\ x \notin executions') =>
                timer[x] /\ chanClosed[x]]_vars

\* C39: outcome agreement.  For every ResultResponse the coordinator has
\* handled, the outcome it reports (state of the complete event, status of
\* the sync answer) is SUCCESS exactly when the status of the ResultResponse
\* is "SUCCESS".
OutcomeAgreement ==
    (outcome # <<>> /\ outcome.report # <<>>) =>
        LET reported == IF outcome.sync THEN outcome.report.status
                        ELSE outcome.report.data.state
        IN (reported = "SUCCESS") <=> (outcome.response.status = "SUCCESS")

====
